---- MODULE Spec2Model ----
(***************************************************************************)
(* Model of deepworx/go-utils.                                             *)
(*                                                                         *)
(*   pkg/shutdown   : the global handler registry, Register, Shutdown,     *)
(*                    WaitForSignal, WaitForSignalWithTimeout              *)
(*   pkg/grpchealth : the health Aggregator, Register, Run, runChecks,     *)
(*                    safeCheck, updateStatus, IsServing                   *)
(*                                                                         *)
(* Time is a discrete clock `now`; durations are counted in its ticks.     *)
(***************************************************************************)
EXTENDS Integers, Sequences, FiniteSets, TLC

(* ------------------------------ bounds --------------------------------- *)
\* goroutines that call into pkg/shutdown
NumCallers == 2
\* Register calls made on pkg/shutdown over a run
MaxHandlers == 3
\* last instant of the clock
MaxTime == 2
\* largest timeout: of WaitForSignalWithTimeout, and Config.Timeout
MaxTimeout == 1
\* largest Config.Interval
MaxInterval == 2
\* names a health checker can be registered under
MaxCheckers == 2
\* goroutines that call Run or runChecks on the Aggregator
NumLoops == 2
\* the checkers a caller can pass to Aggregator.Register
NumCheckerIds == 3
\* concurrent callers of WithTx
NumTxCallers == 2
\* distinct values fn returns or panics with
NumFnVals == 2
\* the longest chain of wrapped errors a handler returns
MaxChain == 3
\* the longest timeout of a deadline Config
MaxDuration == 2
\* the latest deadline of an incoming context
MaxDeadline == 4
\* the most options a caller passes to BuildDefault or BuildDefaultWithAuth
MaxOpts == 2
\* the longest claim path, in characters
MaxPath == 5
\* the longest string claim, in characters
MaxStr == 3
\* the longest []string or []any claim
MaxSlice == 2
\* the longest file a file:// URI names, in characters
MaxContent == 3

(* ------------------------- program constants --------------------------- *)
\* shutdown.DefaultShutdownTimeout, in seconds
DefaultShutdownTimeout == 30

Callers == 1..NumCallers
\* the goroutine that blocks in WaitForSignal* (main)
Waiters == {NumCallers}
HandlerIds == 1..MaxHandlers
Timeouts == 0..MaxTimeout
Loops == 1..NumLoops
Names == 1..MaxCheckers
\* the empty name ""
EmptyName == 0
\* every name a caller can pass to Aggregator.Register
AllNames == {EmptyName} \cup Names
CheckerIds == 1..NumCheckerIds
\* no checker: the name is not a key of a.services
NoChecker == 0
\* the Config values NewAggregator is given
Configs == [Interval : 1..MaxInterval, Timeout : 1..MaxTimeout]

VARIABLES
    now,          \* the clock
    \* ---- pkg/shutdown: program state
    mu,           \* sync.Mutex: 0 when unlocked, else the caller holding it
    handlers,     \* []Handler, in append order
    spc,          \* per caller: where it is inside pkg/shutdown
    harg,         \* per caller: the handler passed to Register
    viaWait,      \* "" | "WaitForSignal" | "WaitForSignalWithTimeout": the call in progress
    stimeout,     \* the timeout of the WaitForSignalWithTimeout call in progress
    parentCtx,    \* the ctx passed to it
    sigCtx,       \* TRUE once a signal was delivered to its NotifyContext
    sctx,         \* per caller: the ctx passed to Shutdown
    si,           \* per caller: loop index i of Shutdown
    serrs,        \* per caller: errs of Shutdown
    sret,         \* per caller: the error Shutdown returns
    \* ---- pkg/shutdown: observations
    nextH,        \* the next fresh handler
    registered,   \* every handler in the order its Register call completed
    invoked,      \* per handler: how many times it was called
    running,      \* handlers that were called and did not return yet
    order,        \* handlers called by the Shutdown holding mu, in order
    snap,         \* the registered handlers not yet called when that Shutdown took mu
    failed,       \* the handlers that returned an error to that Shutdown
    seen,         \* the context the running handler was given, as it saw it
    ctxAt,        \* instant shutdownCtx was made
    \* ---- pkg/grpchealth: the Aggregator
    cfg,          \* a.cfg
    services,     \* a.services: the registered names (the keys)
    checkers,     \* a.services: per name the checker registered, NoChecker if none
    serving,      \* a.serving
    status,       \* a.checker: the status of service "" on the health endpoint
    crashed,      \* TRUE once a panic left a goroutine unrecovered
    \* ---- pkg/grpchealth: per goroutine in Run or runChecks
    lpc,          \* where it is
    mode,         \* "" | "Run" | "runChecks": what the caller invoked
    rctx,         \* ctx given to Run or runChecks
    ticker,       \* the ticker of Run
    csnap,        \* runChecks: services, the copy of a.services
    g,            \* runChecks: per name, the state of its goroutine
    gctx,         \* runChecks: per name, checkCtx
    results,      \* runChecks: results
    allHealthy,   \* runChecks: allHealthy, then the serving argument of updateStatus
    changed,      \* updateStatus: changed
    \* ---- pkg/grpchealth: observations
    gat,          \* per goroutine and name: instant checkCtx was made
    out,          \* per goroutine and name: what checker.Check did
    last,         \* the check cycle completed last, until the next one starts
    updated,      \* TRUE once an updateStatus has run
    callerStarted, \* TRUE once a caller has invoked Run or runChecks
    lateCycles,   \* check cycles Run started after it was asked to stop, up to 2
    shutdownDone, \* TRUE once a shutdown.Shutdown returned while Run was running
    prevAgg,      \* the aggregate result of the cycle that reached updateStatus last
    rres,         \* the last Register call: its arguments, a.services before it, its end
    \* ---- pkg/postgres
    txs,          \* per caller of WithTx: where it is, what fn did, what was done to tx
    \* ---- pkg/connectrpc
    errCall,      \* a call through the errors interceptor: handler result and reply
    recCall,      \* a call through the recovery interceptor: handler result, reply, log
    dlCall,       \* the deadline interceptor: its Config, the incoming and the handler's ctx
    chCall,       \* pkg/connectrpc/interceptor: a chain being built, a request going through it
    jwCall,       \* pkg/connectrpc/jwtauth: a call of one of its functions
    frCall        \* pkg/koanfutil: a FileResolver and its Read

shutdownVars == <<mu, handlers, spc, harg, viaWait, stimeout, parentCtx, sigCtx,
                  sctx, si, serrs, sret, nextH, registered, invoked, running,
                  order, snap, failed, seen, ctxAt>>

\* the state of the WaitForSignal* call
waitVars == <<viaWait, stimeout, parentCtx, sigCtx, ctxAt>>

\* the observations of the Shutdown holding mu
obsVars == <<order, snap, failed, seen>>

aggVars == <<cfg, services, checkers, serving, status, crashed>>

loopVars == <<lpc, mode, rctx, ticker>>

cycleVars == <<csnap, g, gctx, results, allHealthy, changed, gat, out>>

healthObs == <<last, updated, callerStarted, lateCycles, shutdownDone, prevAgg, rres>>

healthVars == <<aggVars, loopVars, cycleVars, healthObs>>

\* the calls into pkg/postgres and pkg/connectrpc
pkgVars == <<chCall, jwCall, frCall>>

libVars == <<txs, errCall, recCall, dlCall, pkgVars>>

vars == <<now, shutdownVars, healthVars, libVars>>

(* ------------------------------ contexts ------------------------------- *)
\* context.Background()
Background == [hasDeadline |-> FALSE, deadline |-> 0, canceled |-> FALSE]

\* ctx.Err() at the instant t
CtxErr(c, t) ==
    IF c.canceled THEN "Canceled"
    ELSE IF c.hasDeadline /\ t >= c.deadline THEN "DeadlineExceeded"
    ELSE "nil"

\* context.WithTimeout(parent, timeout) made at the instant t
WithTimeout(parent, timeout, t) ==
    [hasDeadline |-> TRUE,
     deadline    |-> IF parent.hasDeadline /\ parent.deadline < t + timeout
                     THEN parent.deadline ELSE t + timeout,
     canceled    |-> parent.canceled]

\* what a callee can observe of a context at the instant t
Observe(c, t) == [err |-> CtxErr(c, t), hasDeadline |-> c.hasDeadline,
                  deadline |-> c.deadline, at |-> t]

NotSeen == [err |-> "unseen", hasDeadline |-> FALSE, deadline |-> 0, at |-> 0]

(* ------------------------------ errors --------------------------------- *)
NilError == [isNil |-> TRUE, errs |-> <<>>]

\* the error value handler h returns when it fails
ErrOf(h) == h

\* errors.Join(errs...): nil when there is no non-nil error
Join(errs) ==
    LET nonNil == SelectSeq(errs, LAMBDA e : e # 0)
    IN  IF nonNil = <<>> THEN NilError ELSE [isNil |-> FALSE, errs |-> nonNil]

(***************************************************************************)
(* pkg/shutdown                                                            *)
(***************************************************************************)
ShutdownInit ==
    /\ mu = 0
    /\ handlers = <<>>
    /\ spc = [t \in Callers |-> "idle"]
    /\ harg = [t \in Callers |-> 0]
    /\ viaWait = ""
    /\ stimeout = 0
    /\ parentCtx = Background
    /\ sigCtx = FALSE
    /\ sctx = [t \in Callers |-> Background]
    /\ si = [t \in Callers |-> 0]
    /\ serrs = [t \in Callers |-> <<>>]
    /\ sret = [t \in Callers |-> NilError]
    /\ nextH = 1
    /\ registered = <<>>
    /\ invoked = [h \in HandlerIds |-> 0]
    /\ running = {}
    /\ order = <<>>
    /\ snap = <<>>
    /\ failed = {}
    /\ seen = NotSeen
    /\ ctxAt = 0

AppendHandler_Prepend(hs, h) == <<h>> \o hs

\* handlers = append(handlers, h)
AppendHandler(hs, h) == Append(hs, h)

\* i := len(handlers) - 1  (indices are 1-based here)
LoopFirst(hs) == Len(hs)

\* i--
LoopNext(i) == i - 1

\* i >= 0
LoopCond(i) == i >= 1

Collect_KeepLast(errs, e) == IF e # 0 THEN <<e>> ELSE errs

\* if err != nil { errs = append(errs, err) }
Collect(errs, e) == IF e # 0 THEN Append(errs, e) ELSE errs

ClearHandlers_Keep(hs) == hs

\* handlers = nil
ClearHandlers(hs) == <<>>

ShutdownCtx_FromParent(parent, timeout, t) == WithTimeout(parent, timeout, t)

\* shutdownCtx, cancel := context.WithTimeout(context.Background(), timeout)
ShutdownCtx(parent, timeout, t) == WithTimeout(Background, timeout, t)

CanLock_Always(m) == TRUE

\* mu.Lock() returns: no goroutine holds mu
CanLock(m) == m = 0

\* a goroutine calls Register(h) with a fresh handler and reaches mu.Lock()
CallRegister(t) ==
    /\ spc[t] = "idle"
    /\ nextH <= MaxHandlers
    /\ harg' = [harg EXCEPT ![t] = nextH]
    /\ nextH' = nextH + 1
    /\ spc' = [spc EXCEPT ![t] = "Register"]
    /\ UNCHANGED <<healthVars, libVars, now, mu, handlers, sctx, si, serrs, sret, registered, invoked,
                   running, waitVars, obsVars>>

\* Register: mu.Lock(); handlers = append(handlers, h); mu.Unlock()
Register(t) ==
    /\ spc[t] = "Register"
    /\ CanLock(mu)
    /\ handlers' = AppendHandler(handlers, harg[t])
    /\ registered' = Append(registered, harg[t])
    /\ harg' = [harg EXCEPT ![t] = 0]
    /\ spc' = [spc EXCEPT ![t] = "idle"]
    /\ UNCHANGED <<healthVars, libVars, now, mu, sctx, si, serrs, sret, nextH, invoked, running,
                   waitVars, obsVars>>

\* a goroutine calls Shutdown(context.Background()) and reaches mu.Lock()
CallShutdown(t) ==
    /\ spc[t] = "idle"
    /\ sctx' = [sctx EXCEPT ![t] = Background]
    /\ spc' = [spc EXCEPT ![t] = "Shutdown"]
    /\ UNCHANGED <<healthVars, libVars, now, mu, handlers, harg, si, serrs, sret, nextH, registered,
                   invoked, running, waitVars, obsVars>>

\* Shutdown: mu.Lock(); var errs []error; i := len(handlers) - 1
ShutdownLock(t) ==
    /\ spc[t] = "Shutdown"
    /\ CanLock(mu)
    /\ mu' = t
    /\ si' = [si EXCEPT ![t] = LoopFirst(handlers)]
    /\ serrs' = [serrs EXCEPT ![t] = <<>>]
    /\ order' = <<>>
    /\ snap' = SelectSeq(registered, LAMBDA h : invoked[h] = 0)
    /\ failed' = {}
    /\ seen' = NotSeen
    /\ spc' = [spc EXCEPT ![t] = "loop"]
    /\ UNCHANGED <<healthVars, libVars, now, handlers, harg, sctx, sret, nextH, registered, invoked,
                   running, waitVars>>

\* Shutdown: the loop condition holds and handlers[i](ctx) is called
\* (a handler is followed for at most two calls)
HandlerCall(t) ==
    /\ spc[t] = "loop"
    /\ LoopCond(si[t])
    /\ si[t] <= Len(handlers)
    /\ LET h == handlers[si[t]] IN
        /\ invoked[h] < 2
        /\ invoked' = [invoked EXCEPT ![h] = @ + 1]
        /\ running' = running \cup {h}
        /\ order' = Append(order, h)
    /\ seen' = Observe(sctx[t], now)
    /\ spc' = [spc EXCEPT ![t] = "handler"]
    /\ UNCHANGED <<healthVars, libVars, now, mu, handlers, harg, sctx, si, serrs, sret, nextH,
                   registered, snap, failed, waitVars>>

\* Shutdown: the handler returns an error (fails) or nil; errs is extended; i--
HandlerReturn(t, fails) ==
    /\ spc[t] = "handler"
    /\ LET h == handlers[si[t]]
           e == IF fails THEN ErrOf(h) ELSE 0 IN
        /\ failed' = IF fails THEN failed \cup {h} ELSE failed
        /\ running' = running \ {h}
        /\ serrs' = [serrs EXCEPT ![t] = Collect(@, e)]
    /\ si' = [si EXCEPT ![t] = LoopNext(@)]
    /\ seen' = NotSeen
    /\ spc' = [spc EXCEPT ![t] = "loop"]
    /\ UNCHANGED <<healthVars, libVars, now, mu, handlers, harg, sctx, sret, nextH, registered, invoked,
                   order, snap, waitVars>>

\* Shutdown: the loop ends; handlers = nil; the result is errors.Join(errs...)
ShutdownFinish(t) ==
    /\ spc[t] = "loop"
    /\ ~LoopCond(si[t])
    /\ handlers' = ClearHandlers(handlers)
    /\ sret' = [sret EXCEPT ![t] = Join(serrs[t])]
    /\ spc' = [spc EXCEPT ![t] = "return"]
    /\ UNCHANGED <<healthVars, libVars, now, mu, harg, sctx, si, serrs, nextH, registered, invoked,
                   running, waitVars, obsVars>>

\* Shutdown: the deferred mu.Unlock() runs and Shutdown returns; when it was
\* called by WaitForSignalWithTimeout the deferred cancel() and stop() run and
\* that call returns too
ShutdownReturn(t) ==
    /\ spc[t] = "return"
    /\ mu = t
    /\ mu' = 0
    /\ si' = [si EXCEPT ![t] = 0]
    /\ serrs' = [serrs EXCEPT ![t] = <<>>]
    /\ sret' = [sret EXCEPT ![t] = NilError]
    /\ sctx' = [sctx EXCEPT ![t] = Background]
    /\ order' = <<>>
    /\ snap' = <<>>
    /\ failed' = {}
    /\ seen' = NotSeen
    /\ IF t \in Waiters
       THEN /\ viaWait' = ""
            /\ stimeout' = 0
            /\ parentCtx' = Background
            /\ sigCtx' = FALSE
            /\ ctxAt' = 0
       ELSE UNCHANGED waitVars
    /\ spc' = [spc EXCEPT ![t] = "idle"]
    /\ shutdownDone' = (shutdownDone \/ \E p \in Loops : mode[p] = "Run")
    /\ UNCHANGED <<aggVars, loopVars, cycleVars, last, updated, callerStarted,
                   lateCycles, prevAgg, rres>>
    /\ UNCHANGED <<libVars, now, handlers, harg, nextH, registered, invoked, running>>

\* <-sigCtx.Done(): a signal was delivered or the parent context is done
SigCtxDone == sigCtx \/ CtxErr(parentCtx, now) # "nil"

\* main calls WaitForSignalWithTimeout(ctx, timeout) and blocks on
\* <-sigCtx.Done(); ctx is context.Background() or an already cancelled context
CallWaitForSignalWithTimeout(t, timeout, cancelled) ==
    /\ t \in Waiters
    /\ spc[t] = "idle"
    /\ viaWait' = "WaitForSignalWithTimeout"
    /\ stimeout' = timeout
    /\ parentCtx' = [Background EXCEPT !.canceled = cancelled]
    /\ sigCtx' = FALSE
    /\ spc' = [spc EXCEPT ![t] = "wait"]
    /\ UNCHANGED <<healthVars, libVars, now, mu, handlers, harg, sctx, si, serrs, sret, nextH,
                   registered, invoked, running, ctxAt, obsVars>>

\* WaitForSignal(ctx) is WaitForSignalWithTimeout(ctx, DefaultShutdownTimeout)
CallWaitForSignal(t, cancelled) ==
    /\ t \in Waiters
    /\ spc[t] = "idle"
    /\ viaWait' = "WaitForSignal"
    /\ stimeout' = DefaultShutdownTimeout
    /\ parentCtx' = [Background EXCEPT !.canceled = cancelled]
    /\ sigCtx' = FALSE
    /\ spc' = [spc EXCEPT ![t] = "wait"]
    /\ UNCHANGED <<healthVars, libVars, now, mu, handlers, harg, sctx, si, serrs, sret, nextH,
                   registered, invoked, running, ctxAt, obsVars>>

\* the owner of the parent context cancels it while WaitForSignal* blocks
CancelParent ==
    /\ \E t \in Waiters : spc[t] = "wait"
    /\ ~parentCtx.canceled
    /\ parentCtx' = [parentCtx EXCEPT !.canceled = TRUE]
    /\ UNCHANGED <<healthVars, libVars, now, mu, handlers, spc, harg, viaWait, stimeout, sigCtx, ctxAt,
                   sctx, si, serrs, sret, nextH, registered, invoked, running,
                   obsVars>>

\* the process receives SIGINT or SIGTERM while the NotifyContext is installed
Signal ==
    /\ \E t \in Waiters : spc[t] = "wait"
    /\ ~sigCtx
    /\ sigCtx' = TRUE
    /\ UNCHANGED <<healthVars, libVars, now, mu, handlers, spc, harg, viaWait, stimeout, parentCtx, ctxAt,
                   sctx, si, serrs, sret, nextH, registered, invoked, running,
                   obsVars>>

\* WaitForSignalWithTimeout: <-sigCtx.Done() returns, shutdownCtx is made and
\* Shutdown(shutdownCtx) is called, reaching mu.Lock()
WaitDone(t) ==
    /\ spc[t] = "wait"
    /\ SigCtxDone
    /\ sctx' = [sctx EXCEPT ![t] = ShutdownCtx(parentCtx, stimeout, now)]
    /\ ctxAt' = now
    /\ spc' = [spc EXCEPT ![t] = "Shutdown"]
    /\ UNCHANGED <<healthVars, libVars, now, mu, handlers, harg, viaWait, stimeout, parentCtx, sigCtx,
                   si, serrs, sret, nextH, registered, invoked, running, obsVars>>

\* the clock advances; it is read only through the deadline of shutdownCtx, so
\* it is followed while that context exists and is not done
ShutdownTick ==
    /\ now < MaxTime
    /\ \E t \in Waiters : sctx[t].hasDeadline /\ CtxErr(sctx[t], now) = "nil"
    /\ now' = now + 1
    /\ UNCHANGED <<shutdownVars, healthVars, libVars>>

ShutdownNext ==
    \/ \E t \in Callers : CallRegister(t)
    \/ \E t \in Callers : Register(t)
    \/ \E t \in Callers : CallShutdown(t)
    \/ \E t \in Callers : ShutdownLock(t)
    \/ \E t \in Callers : HandlerCall(t)
    \/ \E t \in Callers, fails \in BOOLEAN : HandlerReturn(t, fails)
    \/ \E t \in Callers : ShutdownFinish(t)
    \/ \E t \in Callers : ShutdownReturn(t)
    \/ \E t \in Callers, timeout \in Timeouts, cancelled \in BOOLEAN :
           CallWaitForSignalWithTimeout(t, timeout, cancelled)
    \/ \E t \in Callers, cancelled \in BOOLEAN : CallWaitForSignal(t, cancelled)
    \/ CancelParent
    \/ Signal
    \/ \E t \in Callers : WaitDone(t)
    \/ ShutdownTick

(***************************************************************************)
(* pkg/grpchealth                                                          *)
(***************************************************************************)
\* DefaultConfig(), in seconds
DefaultConfig == [Interval |-> 10, Timeout |-> 5]

NoTicker == [active |-> FALSE, next |-> 0, pending |-> FALSE]

NoCycle == [who |-> 0, snap |-> {}, out |-> <<>>]

\* no Register call was made yet
NoRegister == [called |-> FALSE, name |-> EmptyName, checker |-> NoChecker,
               before |-> <<>>, panicked |-> FALSE]

NewStatus_Default == "Serving"

\* NewAggregator: checker.SetStatus("", grpchealth.StatusNotServing)
NewStatus == "NotServing"

\* NewAggregator: serving: false
NewServing == FALSE

\* the goroutines NewAggregator starts: none
NewLoops == {}

\* no check cycle in progress in goroutine p
CycleIdle ==
    /\ csnap = [p \in Loops |-> {}]
    /\ g = [p \in Loops |-> [n \in Names |-> "none"]]
    /\ gctx = [p \in Loops |-> [n \in Names |-> Background]]
    /\ results = [p \in Loops |-> <<>>]
    /\ allHealthy = [p \in Loops |-> FALSE]
    /\ changed = [p \in Loops |-> FALSE]
    /\ gat = [p \in Loops |-> [n \in Names |-> 0]]
    /\ out = [p \in Loops |-> [n \in Names |-> "none"]]

\* NewAggregator(c): the state of the new Aggregator
NewAggregator(c) ==
    /\ cfg = c
    /\ services = {}
    /\ checkers = [n \in AllNames |-> NoChecker]
    /\ serving = NewServing
    /\ status = NewStatus
    /\ crashed = FALSE
    /\ lpc = [p \in Loops |-> IF p \in NewLoops THEN "Run" ELSE "idle"]
    /\ mode = [p \in Loops |-> IF p \in NewLoops THEN "Run" ELSE ""]
    /\ rctx = [p \in Loops |-> Background]
    /\ ticker = [p \in Loops |-> NoTicker]
    /\ CycleIdle
    /\ last = NoCycle
    /\ updated = FALSE
    /\ callerStarted = FALSE
    /\ lateCycles = 0
    /\ shutdownDone = FALSE
    /\ prevAgg = "none"
    /\ rres = NoRegister

\* the checker the callers of AggRegister pass
DefaultChecker == 1

\* Register(name, checker) with a name that is not empty and not registered
AggRegister(n) ==
    /\ n \notin services
    /\ services' = services \cup {n}
    /\ checkers' = [checkers EXCEPT ![n] = DefaultChecker]
    /\ UNCHANGED <<now, shutdownVars, libVars, cfg, serving, status, crashed, loopVars,
                   cycleVars, healthObs>>

RegisterPanics_NoDuplicateCheck(n) == n = EmptyName

\* Register: if name == "" { panic }; if _, exists := a.services[name]; exists { panic }
RegisterPanics(n) == n = EmptyName \/ n \in services

\* Register(name, checker), any name and checker: it panics, or it takes a.mu,
\* stores the checker and returns
RegisterCall(n, c) ==
    /\ rres' = [called |-> TRUE, name |-> n, checker |-> c, before |-> checkers,
                panicked |-> RegisterPanics(n)]
    /\ IF RegisterPanics(n)
       THEN UNCHANGED <<services, checkers>>
       ELSE /\ services' = services \cup {n}
            /\ checkers' = [checkers EXCEPT ![n] = c]
    /\ UNCHANGED <<now, shutdownVars, libVars, cfg, serving, status, crashed, loopVars,
                   cycleVars, last, updated, callerStarted, lateCycles,
                   shutdownDone, prevAgg>>

\* IsServing()
IsServing == serving

\* results[name] = healthy
MapSet(r, n, v) == [x \in DOMAIN r \cup {n} |-> IF x = n THEN v ELSE r[x]]

\* ctx.Err() of checkCtx, a child of the ctx of runChecks
CheckCtxErr(p, n) ==
    IF CtxErr(rctx[p], now) # "nil" THEN CtxErr(rctx[p], now)
    ELSE CtxErr(gctx[p][n], now)

CheckCtx_NoTimeout(parent, timeout, t) == parent

\* checkCtx, cancel := context.WithTimeout(ctx, a.cfg.Timeout)
CheckCtx(parent, timeout, t) == WithTimeout(parent, timeout, t)

safeCheck_NoRecover(o) == [healthy |-> o = "true", panics |-> o = "panic"]

\* safeCheck: the result of checker.Check, false when it panicked
safeCheck(o) == [healthy |-> IF o = "panic" THEN FALSE ELSE o = "true",
                 panics  |-> FALSE]

AllHealthy_Any(r) == r = <<>> \/ \E n \in DOMAIN r : r[n]

\* allHealthy := true; for _, healthy := range results { if !healthy { allHealthy = false; break } }
AllHealthy(r) == \A n \in DOMAIN r : r[n]

LaunchReady_Sequential(p, n) ==
    g[p][n] = "none" /\ \A m \in Names : g[p][m] \in {"none", "done"}

\* for name, checker := range services: the next name of the loop, in any order
LaunchReady(p, n) == g[p][n] = "none"

\* wg.Wait() returns
WaitDone_All(p) == \A n \in csnap[p] : g[p][n] = "done"

\* a caller starts a goroutine on Run(ctx): the ticker is made and the first
\* runChecks(ctx) is called
StartRun(p) ==
    /\ lpc[p] = "idle"
    /\ mode' = [mode EXCEPT ![p] = "Run"]
    /\ rctx' = [rctx EXCEPT ![p] = Background]
    /\ ticker' = [ticker EXCEPT ![p] = [active |-> TRUE, next |-> now + cfg.Interval,
                                        pending |-> FALSE]]
    /\ lpc' = [lpc EXCEPT ![p] = "runChecks"]
    /\ callerStarted' = TRUE
    /\ UNCHANGED <<now, shutdownVars, libVars, aggVars, cycleVars, last, updated, lateCycles, shutdownDone, prevAgg, rres>>

\* a caller calls runChecks(ctx) itself
CallRunChecks(p) ==
    /\ lpc[p] = "idle"
    /\ mode' = [mode EXCEPT ![p] = "runChecks"]
    /\ rctx' = [rctx EXCEPT ![p] = Background]
    /\ lpc' = [lpc EXCEPT ![p] = "runChecks"]
    /\ callerStarted' = TRUE
    /\ UNCHANGED <<now, shutdownVars, libVars, aggVars, ticker, cycleVars, last, updated,
                   lateCycles, shutdownDone, prevAgg, rres>>

\* the owner of ctx cancels it
CancelCtx(p) ==
    /\ mode[p] # ""
    /\ ~rctx[p].canceled
    /\ rctx' = [rctx EXCEPT ![p].canceled = TRUE]
    /\ UNCHANGED <<now, shutdownVars, libVars, aggVars, lpc, mode, ticker, cycleVars,
                   healthObs>>

\* runChecks: a.services is copied under a.mu.RLock; with no service
\* updateStatus(true, nil) is called
Snapshot(p) ==
    /\ lpc[p] = "runChecks"
    /\ csnap' = [csnap EXCEPT ![p] = services]
    /\ results' = [results EXCEPT ![p] = <<>>]
    /\ IF services = {}
       THEN /\ allHealthy' = [allHealthy EXCEPT ![p] = TRUE]
            /\ lpc' = [lpc EXCEPT ![p] = "updateStatus"]
       ELSE /\ lpc' = [lpc EXCEPT ![p] = "launch"]
            /\ UNCHANGED allHealthy
    /\ last' = NoCycle
    /\ UNCHANGED <<now, shutdownVars, libVars, aggVars, mode, rctx, ticker, g, gctx, changed,
                   gat, out, updated, callerStarted, lateCycles, shutdownDone, prevAgg, rres>>

\* runChecks: wg.Add(1); go func(name, checker) {...}
Launch(p, n) ==
    /\ lpc[p] = "launch"
    /\ n \in csnap[p]
    /\ LaunchReady(p, n)
    /\ g' = [g EXCEPT ![p][n] = "spawned"]
    /\ UNCHANGED <<now, shutdownVars, libVars, aggVars, loopVars, csnap, gctx, results,
                   allHealthy, changed, gat, out, healthObs>>

\* the goroutine of a checker makes checkCtx and calls safeCheck
GoStart(p, n) ==
    /\ g[p][n] = "spawned"
    /\ gctx' = [gctx EXCEPT ![p][n] = CheckCtx(rctx[p], cfg.Timeout, now)]
    /\ gat' = [gat EXCEPT ![p][n] = now]
    /\ g' = [g EXCEPT ![p][n] = "checking"]
    /\ UNCHANGED <<now, shutdownVars, libVars, aggVars, loopVars, csnap, results, allHealthy,
                   changed, out, healthObs>>

\* checker.Check returns true or false or panics (o), or returns false because
\* it found its context done ("ctxdone"); safeCheck returns, the result is
\* stored in results, the deferred cancel() and wg.Done() run. A panic that
\* is not recovered ends the process.
CheckReturn(p, n, o) ==
    /\ g[p][n] = "checking"
    /\ o = "ctxdone" => CheckCtxErr(p, n) # "nil"
    /\ out' = [out EXCEPT ![p][n] = o]
    /\ LET r == safeCheck(o) IN
        IF r.panics
        THEN /\ crashed' = TRUE
             /\ lpc' = [q \in Loops |-> "crashed"]
             /\ g' = [q \in Loops |-> [m \in Names |-> "crashed"]]
             /\ UNCHANGED results
        ELSE /\ results' = [results EXCEPT ![p] = MapSet(@, n, r.healthy)]
             /\ g' = [g EXCEPT ![p][n] = "done"]
             /\ UNCHANGED <<crashed, lpc>>
    /\ gctx' = [gctx EXCEPT ![p][n] = Background]
    /\ gat' = [gat EXCEPT ![p][n] = 0]
    /\ UNCHANGED <<now, shutdownVars, libVars, cfg, services, checkers, serving, status, mode, rctx,
                   ticker, csnap, allHealthy, changed, healthObs>>

\* runChecks: every goroutine was started, wg.Wait() returns, allHealthy is
\* computed and updateStatus(allHealthy, results) is called
Wait(p) ==
    /\ lpc[p] = "launch"
    /\ \A n \in csnap[p] : g[p][n] # "none"
    /\ WaitDone_All(p)
    /\ allHealthy' = [allHealthy EXCEPT ![p] = AllHealthy(results[p])]
    /\ lpc' = [lpc EXCEPT ![p] = "updateStatus"]
    /\ UNCHANGED <<now, shutdownVars, libVars, aggVars, mode, rctx, ticker, csnap, g, gctx,
                   results, changed, gat, out, healthObs>>

\* the aggregate result of a cycle, as remembered
AggOf(b) == IF b THEN "healthy" ELSE "unhealthy"

NextServing_Latch(cur, agg) == cur \/ agg

\* updateStatus: a.serving = serving
NextServing(cur, agg) == agg

\* updateStatus: under a.mu, changed := a.serving != serving; a.serving = serving
UpdateStatus(p) ==
    /\ lpc[p] = "updateStatus"
    /\ changed' = [changed EXCEPT ![p] = serving # allHealthy[p]]
    /\ serving' = NextServing(serving, allHealthy[p])
    /\ updated' = TRUE
    /\ prevAgg' = AggOf(allHealthy[p])
    /\ lpc' = [lpc EXCEPT ![p] = "SetStatus"]
    /\ UNCHANGED <<now, shutdownVars, libVars, cfg, services, checkers, status, crashed, mode,
                   rctx, ticker, csnap, g, gctx, results, allHealthy, gat, out, last,
                   callerStarted, lateCycles, shutdownDone, rres>>

\* updateStatus: a.checker.SetStatus("", ...), the change is logged, and
\* runChecks returns: to the select of Run, or to the caller
SetStatus(p) ==
    /\ lpc[p] = "SetStatus"
    /\ status' = IF allHealthy[p] THEN "Serving" ELSE "NotServing"
    /\ last' = [who |-> p, snap |-> csnap[p],
                out |-> [n \in csnap[p] |-> out[p][n]]]
    /\ csnap' = [csnap EXCEPT ![p] = {}]
    /\ g' = [g EXCEPT ![p] = [n \in Names |-> "none"]]
    /\ gctx' = [gctx EXCEPT ![p] = [n \in Names |-> Background]]
    /\ gat' = [gat EXCEPT ![p] = [n \in Names |-> 0]]
    /\ out' = [out EXCEPT ![p] = [n \in Names |-> "none"]]
    /\ results' = [results EXCEPT ![p] = <<>>]
    /\ allHealthy' = [allHealthy EXCEPT ![p] = FALSE]
    /\ changed' = [changed EXCEPT ![p] = FALSE]
    /\ IF mode[p] = "Run"
       THEN /\ lpc' = [lpc EXCEPT ![p] = "select"]
            /\ UNCHANGED <<mode, rctx>>
       ELSE /\ lpc' = [lpc EXCEPT ![p] = "idle"]
            /\ mode' = [mode EXCEPT ![p] = ""]
            /\ rctx' = [rctx EXCEPT ![p] = Background]
    /\ UNCHANGED <<now, shutdownVars, libVars, cfg, services, checkers, serving, crashed,
                   ticker, updated, callerStarted, lateCycles, shutdownDone, prevAgg, rres>>

\* Run was asked to stop: its ctx is done, or shutdown.Shutdown returned
StopRequested(p) == CtxErr(rctx[p], now) # "nil" \/ shutdownDone

\* one more cycle counted, 2 standing for 2 or more
Late(n) == IF n < 2 THEN n + 1 ELSE n

\* Run: case <-ticker.C: a.runChecks(ctx)
SelectTick(p) ==
    /\ lpc[p] = "select"
    /\ ticker[p].pending
    /\ ticker' = [ticker EXCEPT ![p].pending = FALSE]
    /\ lpc' = [lpc EXCEPT ![p] = "runChecks"]
    /\ lateCycles' = IF StopRequested(p) THEN Late(lateCycles) ELSE lateCycles
    /\ UNCHANGED <<now, shutdownVars, libVars, aggVars, mode, rctx, cycleVars, last, updated,
                   callerStarted, shutdownDone, prevAgg, rres>>

\* Run: case <-ctx.Done(): return ctx.Err(), and the deferred ticker.Stop()
SelectDone(p) ==
    /\ lpc[p] = "select"
    /\ CtxErr(rctx[p], now) # "nil"
    /\ ticker' = [ticker EXCEPT ![p] = NoTicker]
    /\ mode' = [mode EXCEPT ![p] = ""]
    /\ rctx' = [rctx EXCEPT ![p] = Background]
    /\ lpc' = [lpc EXCEPT ![p] = "idle"]
    /\ lateCycles' = 0
    /\ UNCHANGED <<now, shutdownVars, libVars, aggVars, cycleVars, last, updated,
                   callerStarted, shutdownDone, prevAgg, rres>>

\* the ticker after the clock reached the instant t: a tick is sent on
\* ticker.C, which holds one tick, every Interval
Fire(tk, t) ==
    IF tk.active /\ t >= tk.next
    THEN [tk EXCEPT !.pending = TRUE, !.next = tk.next + cfg.Interval]
    ELSE tk

\* the clock advances while a goroutine is in Run or runChecks
HealthTick ==
    /\ now < MaxTime
    /\ \E p \in Loops : lpc[p] # "idle"
    /\ now' = now + 1
    /\ ticker' = [p \in Loops |-> Fire(ticker[p], now + 1)]
    /\ UNCHANGED <<shutdownVars, libVars, aggVars, lpc, mode, rctx, cycleVars, healthObs>>

\* no other goroutine is in Run or runChecks; the goroutines being
\* interchangeable, the first one is taken
Alone(p) == \A q \in Loops \ {p} : lpc[q] = "idle" /\ p < q

\* what checker.Check can do
Outcomes == {"true", "false", "panic", "ctxdone"}

\* one goroutine at a time is in Run or runChecks
HealthNext ==
    \/ \E n \in Names : AggRegister(n)
    \/ \E p \in Loops : Alone(p) /\ StartRun(p)
    \/ \E p \in Loops : Alone(p) /\ CallRunChecks(p)
    \/ \E p \in Loops : CancelCtx(p)
    \/ \E p \in Loops : Snapshot(p)
    \/ \E p \in Loops, n \in Names : Launch(p, n)
    \/ \E p \in Loops, n \in Names : GoStart(p, n)
    \/ \E p \in Loops, n \in Names, o \in Outcomes : CheckReturn(p, n, o)
    \/ \E p \in Loops : Wait(p)
    \/ \E p \in Loops : UpdateStatus(p)
    \/ \E p \in Loops : SetStatus(p)
    \/ \E p \in Loops : SelectTick(p)
    \/ \E p \in Loops : SelectDone(p)
    \/ HealthTick

(***************************************************************************)
(* pkg/postgres: WithTx and PgUnitOfWork.Execute                           *)
(***************************************************************************)
TxCallers == 1..NumTxCallers

\* the values fn can return as its error, or panic with
FnVals == 1..NumFnVals

\* fn was not called
NoFn == [kind |-> "none", val |-> 0]

\* what fn can do: return nil, return an error, panic
FnOutcomes ==
    {[kind |-> "nil", val |-> 0]}
        \cup [kind : {"error", "panic"}, val : FnVals]

\* nothing was returned yet
NoRet == [kind |-> "none", prefix |-> "", cause |-> <<>>, original |-> <<>>]

\* return nil
NilRet == [kind |-> "nil", prefix |-> "", cause |-> <<>>, original |-> <<>>]

\* the error value fn returned
FnErr(v) == [kind |-> "error", prefix |-> "", cause |-> <<"fn", v>>, original |-> <<>>]

\* the error of pool.Begin, tx.Rollback or tx.Commit
DriverErr(op) == [kind |-> "error", prefix |-> "", cause |-> <<op, 0>>, original |-> <<>>]

\* fmt.Errorf(prefix + ": %w", e), and fmt.Errorf(prefix + ": %w (original: %v)", e, o):
\* e is wrapped, o is only quoted in the text
Errorf(prefix, e, o) ==
    [kind |-> "error", prefix |-> prefix, cause |-> e.cause,
     original |-> IF o = NoRet THEN <<>> ELSE o.cause]

\* panic(r) leaves WithTx
PanicRet(v) == [kind |-> "panic", prefix |-> "", cause |-> <<"fn", v>>, original |-> <<>>]

NoTx == [pc |-> "idle", via |-> "", fn |-> NoFn, ret |-> NoRet, log |-> <<>>]

AfterFn_CommitOnError(o) == IF o.kind = "panic" THEN "recover" ELSE "Commit"

\* WithTx after fn: if err := fn(tx); err != nil { Rollback } else Commit; a
\* panic runs the deferred function
AfterFn(o) ==
    IF o.kind = "panic" THEN "recover"
    ELSE IF o.kind = "error" THEN "Rollback"
    ELSE "Commit"

\* WithTx(ctx, pool, fn), or Execute(ctx, fn) which calls it: pool.Begin(ctx)
\* succeeds, or fails and WithTx returns
CallWithTx(t, via, beginFails) ==
    /\ txs[t].pc = "idle"
    /\ txs' = [txs EXCEPT ![t] =
                 IF beginFails
                 THEN [@ EXCEPT !.pc = "return", !.via = via, !.log = <<"BeginFailed">>,
                                !.ret = Errorf("begin transaction", DriverErr("Begin"), NoRet)]
                 ELSE [@ EXCEPT !.pc = "fn", !.via = via, !.log = <<"Begin">>]]
    /\ UNCHANGED <<now, shutdownVars, healthVars, errCall, recCall, dlCall, pkgVars>>

\* fn(tx) returns or panics
FnEnds(t, o) ==
    /\ txs[t].pc = "fn"
    /\ txs' = [txs EXCEPT ![t] = [@ EXCEPT !.fn = o, !.log = Append(@, "fn"),
                                           !.pc = AfterFn(o)]]
    /\ UNCHANGED <<now, shutdownVars, healthVars, errCall, recCall, dlCall, pkgVars>>

\* fn returned err: tx.Rollback(ctx); its error is returned if it fails, else err
TxRollback(t, fails) ==
    /\ txs[t].pc = "Rollback"
    /\ txs' = [txs EXCEPT ![t] =
                 [@ EXCEPT !.pc = "return",
                           !.log = Append(@, IF fails THEN "RollbackFailed" ELSE "Rollback"),
                           !.ret = IF fails
                                   THEN Errorf("rollback transaction", DriverErr("Rollback"),
                                               FnErr(txs[t].fn.val))
                                   ELSE FnErr(txs[t].fn.val)]]
    /\ UNCHANGED <<now, shutdownVars, healthVars, errCall, recCall, dlCall, pkgVars>>

\* fn panicked: the deferred function recovers, _ = tx.Rollback(ctx); panic(r)
TxRecover(t, fails) ==
    /\ txs[t].pc = "recover"
    /\ txs' = [txs EXCEPT ![t] =
                 [@ EXCEPT !.pc = "return",
                           !.log = Append(@, IF fails THEN "RollbackFailed" ELSE "Rollback"),
                           !.ret = PanicRet(txs[t].fn.val)]]
    /\ UNCHANGED <<now, shutdownVars, healthVars, errCall, recCall, dlCall, pkgVars>>

\* fn returned nil: tx.Commit(ctx); its error is returned if it fails, else nil
TxCommit(t, fails) ==
    /\ txs[t].pc = "Commit"
    /\ txs' = [txs EXCEPT ![t] =
                 [@ EXCEPT !.pc = "return",
                           !.log = Append(@, IF fails THEN "CommitFailed" ELSE "Commit"),
                           !.ret = IF fails
                                   THEN Errorf("commit transaction", DriverErr("Commit"), NoRet)
                                   ELSE NilRet]]
    /\ UNCHANGED <<now, shutdownVars, healthVars, errCall, recCall, dlCall, pkgVars>>

\* the caller has the result of WithTx
TxReturn(t) ==
    /\ txs[t].pc = "return"
    /\ txs' = [txs EXCEPT ![t] = NoTx]
    /\ UNCHANGED <<now, shutdownVars, healthVars, errCall, recCall, dlCall, pkgVars>>

TxNext ==
    \/ \E t \in TxCallers, via \in {"WithTx", "Execute"}, beginFails \in BOOLEAN :
           CallWithTx(t, via, beginFails)
    \/ \E t \in TxCallers, o \in FnOutcomes : FnEnds(t, o)
    \/ \E t \in TxCallers, fails \in BOOLEAN : TxRollback(t, fails)
    \/ \E t \in TxCallers, fails \in BOOLEAN : TxRecover(t, fails)
    \/ \E t \in TxCallers, fails \in BOOLEAN : TxCommit(t, fails)
    \/ \E t \in TxCallers : TxReturn(t)

(***************************************************************************)
(* pkg/connectrpc/errors: the error interceptor                            *)
(***************************************************************************)
\* An error is the chain errors.Unwrap walks, outermost first; nil is <<>>.
\* the codes handlers give their ConnectCoder and connect.Error values
Codes == {"not_found", "permission_denied"}

\* fmt.Errorf("...: %w", inner)
WrapNode == [kind |-> "wrap", code |-> "", text |-> "op failed"]

\* errors.New(...)
NewNode == [kind |-> "new", code |-> "", text |-> "sql error"]

\* context.Canceled
CanceledNode == [kind |-> "canceled", code |-> "", text |-> "context canceled"]

\* context.DeadlineExceeded
DeadlineNode == [kind |-> "deadline", code |-> "", text |-> "context deadline exceeded"]

\* an error implementing ConnectCoder, ConnectCode() = c
CoderNode(c) == [kind |-> "coder", code |-> c, text |-> "domain error"]

\* connect.NewError(c, inner)
ConnectNode(c) == [kind |-> "connect", code |-> c, text |-> ""]

\* errors.New("internal error")
InternalNode == [kind |-> "new", code |-> "", text |-> "internal error"]

\* errors that wrap another error
InnerNodes == {WrapNode} \cup {CoderNode(c) : c \in Codes} \cup {ConnectNode(c) : c \in Codes}

\* errors that can end a chain
LeafNodes ==
    {NewNode, CanceledNode, DeadlineNode}
        \cup {CoderNode(c) : c \in Codes} \cup {ConnectNode(c) : c \in Codes}

ChainsOfLen(k) ==
    {e \in [1..k -> InnerNodes \cup LeafNodes] :
        e[k] \in LeafNodes /\ \A i \in 1..(k - 1) : e[i] \in InnerNodes}

\* what a handler can return as its error, nil included
HandlerErrs == {<<>>} \cup UNION {ChainsOfLen(k) : k \in 1..MaxChain}

\* errors.Is(err, target), target being the sentinel of that kind
RECURSIVE Is(_, _)
Is(err, kind) ==
    IF err = <<>> THEN FALSE
    ELSE IF Head(err).kind = kind THEN TRUE
    ELSE Is(Tail(err), kind)

\* errors.As(err, &target): the first error of the chain of that type, with
\* what it wraps; <<>> when there is none
RECURSIVE As(_, _)
As(err, kind) ==
    IF err = <<>> THEN <<>>
    ELSE IF Head(err).kind = kind THEN err
    ELSE As(Tail(err), kind)

\* err.Error(), as the sequence of its parts: a connect.Error prints its code
\* before the message of what it wraps
ErrorString(err) ==
    [i \in 1..Len(err) |-> IF err[i].kind = "connect" THEN err[i].code ELSE err[i].text]

\* a nil *connect.Error
NilConnectErr == [isNil |-> TRUE, code |-> "", err |-> <<>>]

\* connect.NewError(code, underlying)
NewError(code, underlying) == [isNil |-> FALSE, code |-> code, err |-> underlying]

\* (*connect.Error).Message(): the Error() of the underlying error
Message(ce) == ErrorString(ce.err)

RuleOf_CoderFirst(err) ==
    IF As(err, "coder") # <<>> THEN 3
    ELSE IF Is(err, "canceled") THEN 1
    ELSE IF Is(err, "deadline") THEN 2
    ELSE IF As(err, "connect") # <<>> THEN 4
    ELSE 5

\* mapError: the first of its tests that succeeds
RuleOf(err) ==
    IF Is(err, "canceled") THEN 1
    ELSE IF Is(err, "deadline") THEN 2
    ELSE IF As(err, "coder") # <<>> THEN 3
    ELSE IF As(err, "connect") # <<>> THEN 4
    ELSE 5

Underlying_Cause(err) == <<err[Len(err)]>>

\* mapError, rules 1 to 3: connect.NewError(code, err) wraps err itself
Underlying(err) == err

Sanitized_Leak(err) == err

\* mapError, rule 5: errors.New("internal error") is wrapped, not err
Sanitized(err) == <<InternalNode>>

\* mapError(err), err not nil
mapError(err) ==
    LET r == RuleOf(err) IN
    IF r = 1 THEN NewError("canceled", Underlying(err))
    ELSE IF r = 2 THEN NewError("deadline_exceeded", Underlying(err))
    ELSE IF r = 3 THEN NewError(Head(As(err, "coder")).code, Underlying(err))
    ELSE IF r = 4 THEN NewError(Head(As(err, "connect")).code, Tail(As(err, "connect")))
    ELSE NewError("internal", Sanitized(err))

\* the responses of a handler, 0 being nil
Resps == {0, 1}

\* a call about to reach the handler: what next(ctx, req) will return
ErrCalls ==
    {c \in [pc : {"call"}, via : {"unary", "stream"}, resp : Resps, herr : HandlerErrs,
            outResp : {0}, out : {NilConnectErr}] : c.via = "stream" => c.resp = 0}

NoErrCall == [pc |-> "idle", via |-> "", resp |-> 0, herr |-> <<>>, outResp |-> 0,
              out |-> NilConnectErr]

\* WrapUnary: resp, err := next(ctx, req); the error is mapped when not nil
ErrWrapUnary ==
    /\ errCall.pc = "call"
    /\ errCall.via = "unary"
    /\ errCall' = [errCall EXCEPT !.pc = "done", !.outResp = errCall.resp,
                                  !.out = IF errCall.herr # <<>>
                                          THEN mapError(errCall.herr)
                                          ELSE NilConnectErr]
    /\ UNCHANGED <<now, shutdownVars, healthVars, txs, recCall, dlCall, pkgVars>>

\* WrapStreamingHandler: err := next(ctx, conn); the error is mapped when not nil
ErrWrapStreamingHandler ==
    /\ errCall.pc = "call"
    /\ errCall.via = "stream"
    /\ errCall' = [errCall EXCEPT !.pc = "done",
                                  !.out = IF errCall.herr # <<>>
                                          THEN mapError(errCall.herr)
                                          ELSE NilConnectErr]
    /\ UNCHANGED <<now, shutdownVars, healthVars, txs, recCall, dlCall, pkgVars>>

ErrNext == ErrWrapUnary \/ ErrWrapStreamingHandler

(***************************************************************************)
(* pkg/connectrpc/recovery: the recovery interceptor                       *)
(***************************************************************************)
\* the values a handler panics with: panic(nil), panic("..."), panic(err)
PanicVals == {"nil", "string", "error"}

\* the errors a handler returns here: nil or a single error
RecErrs == {<<>>} \cup ChainsOfLen(1)

\* what next(ctx, req) can do: return a response and an error, or panic
RecOutcomes ==
    [kind : {"return"}, resp : Resps, err : RecErrs, val : {""}]
        \cup [kind : {"panic"}, resp : {0}, err : {<<>>}, val : PanicVals]

\* a call about to reach the handler; ctx holds a request id or not
RecCalls ==
    {c \in [pc : {"call"}, via : {"unary", "stream"}, hasReqID : BOOLEAN,
            outcome : RecOutcomes, resp : {0}, err : {<<>>}, escaped : {FALSE},
            logs : {<<>>}] : c.via = "stream" => c.outcome.resp = 0}

NoRecCall == [pc |-> "idle", via |-> "", hasReqID |-> FALSE,
              outcome |-> [kind |-> "return", resp |-> 0, err |-> <<>>, val |-> ""],
              resp |-> 0, err |-> <<>>, escaped |-> FALSE, logs |-> <<>>]

Recovers_NonNilValue(o) == o.kind = "panic" /\ o.val # "nil"

\* the deferred function: r := recover(); r != nil. It holds for every
\* panic, the runtime turning panic(nil) into a *runtime.PanicNilError
Recovers(o) == o.kind = "panic"

\* req.Spec().Procedure, conn.Spec().Procedure
Procedure(via) == IF via = "unary" THEN "/test.Service/Unary" ELSE "/test.Service/Stream"

\* recoverPanic: the record given to slog.ErrorContext
PanicRecord(c) ==
    [msg |-> "panic recovered", procedure |-> Procedure(c.via), panic |-> c.outcome.val,
     stack |-> TRUE, request_id |-> c.hasReqID]

\* recoverPanic: connect.NewError(connect.CodeInternal, errors.New("internal error"))
RecoveredErr == <<ConnectNode("internal"), InternalNode>>

\* the wrapped function returns: what next returned, or after a panic the
\* zero response with the error of recoverPanic; a panic that is not
\* recovered leaves the function
Recovered(c) ==
    IF Recovers(c.outcome)
    THEN [c EXCEPT !.pc = "done", !.resp = 0, !.err = RecoveredErr,
                   !.logs = Append(c.logs, PanicRecord(c))]
    ELSE IF c.outcome.kind = "panic"
    THEN [c EXCEPT !.pc = "done", !.escaped = TRUE]
    ELSE [c EXCEPT !.pc = "done", !.resp = c.outcome.resp, !.err = c.outcome.err]

\* WrapUnary: defer func() { if r := recover(); r != nil { err = recoverPanic(...) } }();
\* return next(ctx, req)
RecWrapUnary ==
    /\ recCall.pc = "call"
    /\ recCall.via = "unary"
    /\ recCall' = Recovered(recCall)
    /\ UNCHANGED <<now, shutdownVars, healthVars, txs, errCall, dlCall, pkgVars>>

\* WrapStreamingHandler: the same around next(ctx, conn)
RecWrapStreamingHandler ==
    /\ recCall.pc = "call"
    /\ recCall.via = "stream"
    /\ recCall' = Recovered(recCall)
    /\ UNCHANGED <<now, shutdownVars, healthVars, txs, errCall, dlCall, pkgVars>>

RecNext == RecWrapUnary \/ RecWrapStreamingHandler

(***************************************************************************)
(* pkg/connectrpc/deadline: the deadline interceptor                       *)
(***************************************************************************)
\* the values of a time.Duration field of Config, negative ones included
Durations == (0 - 1)..MaxDuration

\* every Config a caller can pass to NewInterceptor
DlConfigs == [DefaultTimeout : Durations, MaxTimeout : Durations]

\* the contexts a request arrives with: no deadline, or a deadline that may
\* have passed
IncomingCtxs ==
    {Background} \cup [hasDeadline : {TRUE}, deadline : 0..MaxDeadline, canceled : {FALSE}]

NoDlCall == [pc |-> "idle", cfg |-> [DefaultTimeout |-> 0, MaxTimeout |-> 0],
             isClient |-> FALSE, in |-> Background, out |-> Background]

\* NewInterceptor does not panic
Accepts(c) ==
    /\ ~(c.DefaultTimeout <= 0)
    /\ ~(c.MaxTimeout > 0 /\ c.MaxTimeout < c.DefaultTimeout)

\* context.WithDeadline(parent, d): the earlier of d and the deadline of parent
WithDeadline(parent, d) ==
    [hasDeadline |-> TRUE,
     deadline    |-> IF parent.hasDeadline /\ parent.deadline < d
                     THEN parent.deadline ELSE d,
     canceled    |-> parent.canceled]

After_Before(a, b) == a < b

\* deadline.After(maxDeadline)
After(a, b) == a > b

\* applyDeadline(ctx) at the instant t, for the interceptor made from c
applyDeadline(c, ctx, t) ==
    IF ~ctx.hasDeadline THEN WithTimeout(ctx, c.DefaultTimeout, t)
    ELSE IF c.MaxTimeout = 0 THEN ctx
    ELSE LET maxDeadline == t + c.MaxTimeout
         IN  IF After(ctx.deadline, maxDeadline)
             THEN WithDeadline(ctx, maxDeadline)
             ELSE ctx

\* NewInterceptor(cfg): it panics or returns the interceptor
DlNewInterceptor ==
    /\ dlCall.pc = "new"
    /\ dlCall' = [dlCall EXCEPT !.pc = IF Accepts(dlCall.cfg) THEN "ready" ELSE "panicked"]
    /\ UNCHANGED <<now, shutdownVars, healthVars, txs, errCall, recCall, pkgVars>>

\* WrapUnary: a client-side call passes ctx on; a server-side call gives the
\* handler the ctx of applyDeadline
DlWrapUnary(ctx, isClient) ==
    /\ dlCall.pc = "ready"
    /\ dlCall' = [dlCall EXCEPT !.pc = "done", !.isClient = isClient, !.in = ctx,
                                !.out = IF isClient THEN ctx
                                        ELSE applyDeadline(dlCall.cfg, ctx, now)]
    /\ UNCHANGED <<now, shutdownVars, healthVars, txs, errCall, recCall, pkgVars>>

\* the handler returns, the deferred cancel() runs
DlReturn ==
    /\ dlCall.pc = "done"
    /\ dlCall' = [dlCall EXCEPT !.pc = "ready", !.isClient = FALSE, !.in = Background,
                                !.out = Background]
    /\ UNCHANGED <<now, shutdownVars, healthVars, txs, errCall, recCall, pkgVars>>

\* time passes between two calls
DlTick ==
    /\ dlCall.pc = "ready"
    /\ now < MaxTime
    /\ now' = now + 1
    /\ UNCHANGED <<shutdownVars, healthVars, libVars>>

DlNext ==
    \/ DlNewInterceptor
    \/ \E ctx \in IncomingCtxs, isClient \in BOOLEAN : DlWrapUnary(ctx, isClient)
    \/ DlReturn
    \/ DlTick

(***************************************************************************)
(* pkg/connectrpc/interceptor: the default interceptor chain               *)
(***************************************************************************)
\* the values of requestid.Config.HeaderName: unset, or a custom header
HeaderNames == {"", "X-Custom-Request-ID"}

RqConfigs == [HeaderName : HeaderNames]

\* requestid.NewInterceptor(cfg): the header it reads, X-Request-ID by default
RequestIDHeader(c) == IF c.HeaderName = "" THEN "X-Request-ID" ELSE c.HeaderName

\* deadline.DefaultConfig(), in seconds
DlDefaultConfig == [DefaultTimeout |-> 30, MaxTimeout |-> 300]

\* requestid.DefaultConfig()
RqDefaultConfig == [HeaderName |-> ""]

\* a nil pointer field of Options
NilCfg == [isNil |-> TRUE]

\* &Options{}
NewOptions == [deadlineCfg |-> NilCfg, requestIDCfg |-> NilCfg]

\* WithDeadline(cfg) and WithRequestID(cfg)
ChOptions ==
    [kind : {"WithDeadline"}, cfg : DlConfigs] \cup [kind : {"WithRequestID"}, cfg : RqConfigs]

\* the opts ...Option of a call
OptSeqs == UNION {[1..k -> ChOptions] : k \in 0..MaxOpts}

\* opt(o)
ApplyOption(o, opt) ==
    IF opt.kind = "WithDeadline"
    THEN [o EXCEPT !.deadlineCfg = [isNil |-> FALSE, cfg |-> opt.cfg]]
    ELSE [o EXCEPT !.requestIDCfg = [isNil |-> FALSE, cfg |-> opt.cfg]]

RECURSIVE ApplyOptions(_, _)
\* for _, opt := range opts { opt(o) }
ApplyOptions(o, opts) ==
    IF opts = <<>> THEN o ELSE ApplyOptions(ApplyOption(o, Head(opts)), Tail(opts))

\* the *jwtauth.Authenticator a caller passes: nil or not
Auths == {"nil", "auth"}

\* the configuration buildChain gives deadline.NewInterceptor
DeadlineCfgOf(o) == IF o.deadlineCfg.isNil THEN DlDefaultConfig ELSE o.deadlineCfg.cfg

\* the configuration buildChain gives requestid.NewInterceptor
RequestIDCfgOf(o) == IF o.requestIDCfg.isNil THEN RqDefaultConfig ELSE o.requestIDCfg.cfg

Stage(name) == [name |-> name]

AuthStage_AfterValidate(auth, before) ==
    IF auth # "nil" /\ ~before THEN <<Stage("jwtauth")>> ELSE <<>>

\* step 6 of buildChain, between logging and validate (before = TRUE); none
\* follows validate
AuthStage(auth, before) ==
    IF auth # "nil" /\ before THEN <<Stage("jwtauth")>> ELSE <<>>

\* the appends of buildChain, in their order
Stages(o, auth) ==
    <<Stage("recovery"),
      [name |-> "deadline", cfg |-> DeadlineCfgOf(o)],
      [name |-> "requestid", headerName |-> RequestIDHeader(RequestIDCfgOf(o))],
      Stage("otel"),
      Stage("logging")>>
    \o AuthStage(auth, TRUE)
    \o <<Stage("validate")>>
    \o AuthStage(auth, FALSE)
    \o <<Stage("errors")>>

\* what a call returns: interceptors (nil when empty) and err, or a panic
ChResult(kind, interceptors) == [kind |-> kind, interceptors |-> interceptors]

\* buildChain(o, auth): deadline.NewInterceptor panics on a Config it rejects,
\* and otelconnect.NewInterceptor can return an error
buildChain(o, auth, otelErr) ==
    IF ~Accepts(DeadlineCfgOf(o)) THEN ChResult("panic", <<>>)
    ELSE IF otelErr THEN ChResult("error", <<>>)
    ELSE ChResult("ok", Stages(o, auth))

\* no request is going through the chain
NoRun == [pc |-> "idle", at |-> 0, ctxs |-> <<>>, req |-> <<>>, err |-> <<>>,
          logs |-> <<>>]

NoChCall == [pc |-> "idle", via |-> "", auth |-> "nil", opts |-> <<>>,
             otelErr |-> FALSE, res |-> ChResult("", <<>>), run |-> NoRun]

\* BuildDefault(opts...)
BuildDefault(opts, otelErr) ==
    /\ chCall.pc = "idle"
    /\ chCall' = [pc |-> "done", via |-> "BuildDefault", auth |-> "nil", opts |-> opts,
                  otelErr |-> otelErr, run |-> NoRun,
                  res |-> buildChain(ApplyOptions(NewOptions, opts), "nil", otelErr)]
    /\ UNCHANGED <<now, shutdownVars, healthVars, txs, errCall, recCall, dlCall,
                   jwCall, frCall>>

\* BuildDefaultWithAuth(auth, opts...)
BuildDefaultWithAuth(auth, opts, otelErr) ==
    /\ chCall.pc = "idle"
    /\ chCall' = [pc |-> "done", via |-> "BuildDefaultWithAuth", auth |-> auth,
                  opts |-> opts, otelErr |-> otelErr, run |-> NoRun,
                  res |-> IF auth = "nil" THEN ChResult("error", <<>>)
                          ELSE buildChain(ApplyOptions(NewOptions, opts), auth, otelErr)]
    /\ UNCHANGED <<now, shutdownVars, healthVars, txs, errCall, recCall, dlCall,
                   jwCall, frCall>>

\* the caller drops the result
ChReturn ==
    /\ chCall.pc = "done"
    /\ chCall' = NoChCall
    /\ UNCHANGED <<now, shutdownVars, healthVars, txs, errCall, recCall, dlCall,
                   jwCall, frCall>>

\* the opts of the next call: a call is made when none is in progress
CallOpts == IF chCall.pc = "idle" THEN OptSeqs ELSE {}

ChNext ==
    \/ \E opts \in CallOpts, otelErr \in BOOLEAN : BuildDefault(opts, otelErr)
    \/ \E auth \in Auths, opts \in CallOpts, otelErr \in BOOLEAN :
           BuildDefaultWithAuth(auth, opts, otelErr)
    \/ ChReturn

(***************************************************************************)
(* pkg/connectrpc/jwtauth: configuration, claims, the interceptor          *)
(***************************************************************************)
\* A Go string is the sequence of its characters.
\* the characters of a claim path: two letters and the separator
PathChars == {"a", "b", "."}

\* the claim paths a caller can ask for, "" included
Paths == UNION {[1..k -> PathChars] : k \in 0..MaxPath}

\* the names of the claims of a token and the keys of its maps
Keys == {<<"a">>, <<"b">>}

\* the values of the claims of a parsed token (any)
StringVal(s) == [t |-> "string", v |-> s]

NumberVal == [t |-> "float64", v |-> <<>>]

\* a map[string]any
MapVal(m) == [t |-> "map", v |-> m]

\* a []string
StringsVal(ss) == [t |-> "[]string", v |-> ss]

\* a []any
AnysVal(vs) == [t |-> "[]any", v |-> vs]

\* the maps with keys among K and values among V
MapsOf(K, V) == UNION {[D -> V] : D \in SUBSET K}

\* claims that are no maps
Leafs == {StringVal(<<"x">>), NumberVal}

\* claims one map deep
InnerMaps == {MapVal(m) : m \in MapsOf(Keys, Leafs)}

\* tokens two maps deep, on the path a.b
DeepTokens == {(<<"a">>) :> MapVal((<<"b">>) :> m) : m \in InnerMaps}

\* the parsed tokens getNestedClaim is given
Tokens == MapsOf(Keys, Leafs \cup InnerMaps) \cup DeepTokens

RECURSIVE Split(_)
\* strings.Split(s, "."): one part more than s has separators
Split(s) ==
    IF s = <<>> THEN << <<>> >>
    ELSE IF Head(s) = "." THEN << <<>> >> \o Split(Tail(s))
    ELSE LET r == Split(Tail(s)) IN << <<Head(s)>> \o Head(r) >> \o Tail(r)

\* return nil, false
NotFound == [v |-> [t |-> "nil", v |-> <<>>], ok |-> FALSE]

Walk_StopAtFirst(current, parts) == [v |-> current, ok |-> TRUE]

RECURSIVE Walk(_, _)
\* the loop of getNestedClaim over parts[1:]
Walk(current, parts) ==
    IF parts = <<>> THEN [v |-> current, ok |-> TRUE]
    ELSE IF current.t # "map" THEN NotFound
    ELSE IF Head(parts) \notin DOMAIN current.v THEN NotFound
    ELSE Walk(current.v[Head(parts)], Tail(parts))

\* getNestedClaim(tok, path); tok.Get fails for a name that is no claim
getNestedClaim(tok, path) ==
    IF path = <<>> THEN NotFound
    ELSE LET parts == Split(path) IN
         IF Head(parts) \notin DOMAIN tok THEN NotFound
         ELSE Walk(tok[Head(parts)], Tail(parts))

\* "sub", "a" and "b.a" as claim paths
SubPath == <<"s", "u", "b">>

APath == <<"a">>

BAPath == <<"b", ".", "a">>

\* the paths of a ClaimsMapping field, "" for a field that is not mapped
MappingPaths == {<<>>, SubPath, APath, BAPath}

\* *ClaimsMapping of a Config: nil, or the four paths
ClaimsMappings ==
    {[isNil |-> TRUE]}
        \cup [isNil : {FALSE}, UserID : MappingPaths, TenantID : MappingPaths,
              Roles : MappingPaths, Permissions : MappingPaths]

\* NewAuthenticator: the mapping of the Authenticator, UserID "sub" by default
NewMapping(cm) ==
    IF cm.isNil
    THEN [UserID |-> SubPath, TenantID |-> <<>>, Roles |-> <<>>, Permissions |-> <<>>]
    ELSE [UserID      |-> IF cm.UserID = <<>> THEN SubPath ELSE cm.UserID,
          TenantID    |-> cm.TenantID,
          Roles       |-> cm.Roles,
          Permissions |-> cm.Permissions]

\* the strings of claim values: a letter and white space
Strs == UNION {[1..k -> {"x", " "}] : k \in 0..MaxStr}

\* the elements of a []string claim
Words == {<<"x">>, <<"y">>}

\* the elements of a []any claim
AnyElems == {StringVal(w) : w \in Words} \cup {NumberVal}

SeqsUpTo(S, n) == UNION {[1..k -> S] : k \in 0..n}

\* the values of the claim "a" of the tokens extractClaims is given
ClaimVals ==
    {StringVal(str) : str \in Strs} \cup {NumberVal}
        \cup {StringsVal(ss) : ss \in SeqsUpTo(Words, MaxSlice)}
        \cup {AnysVal(vs) : vs \in SeqsUpTo(AnyElems, MaxSlice)}

\* the tokens extractClaims is given: claims sub and a, and a map b with a key a
ExTokens ==
    {sub @@ a @@ b :
        sub \in {<<>>} \cup {SubPath :> v : v \in {StringVal(<<"x">>), NumberVal}},
        a \in {<<>>} \cup {APath :> v : v \in ClaimVals},
        b \in {<<>>, (<<"b">>) :> MapVal(APath :> StringVal(<<"y">>))}}

RECURSIVE Fields(_, _)
\* strings.Fields(s): the runs of characters that are no white space; word is
\* the run being read
Fields(str, word) ==
    IF str = <<>> THEN (IF word = <<>> THEN <<>> ELSE <<word>>)
    ELSE IF Head(str) = " "
    THEN (IF word = <<>> THEN <<>> ELSE <<word>>) \o Fields(Tail(str), <<>>)
    ELSE Fields(Tail(str), Append(word, Head(str)))

KeepStrings_First(vs) == IF vs = <<>> THEN <<>> ELSE <<Head(vs).v>>

RECURSIVE KeepStrings(_)
\* toStringSlice, case []any: the items that are strings, appended in order
KeepStrings(vs) ==
    IF vs = <<>> THEN <<>>
    ELSE (IF Head(vs).t = "string" THEN <<Head(vs).v>> ELSE <<>>) \o KeepStrings(Tail(vs))

\* toStringSlice(v): the []string, or an error
toStringSlice(v) ==
    IF v.t = "[]string" THEN [err |-> FALSE, val |-> v.v]
    ELSE IF v.t = "[]any" THEN [err |-> FALSE, val |-> KeepStrings(v.v)]
    ELSE IF v.t = "string" THEN [err |-> FALSE, val |-> Fields(v.v, <<>>)]
    ELSE [err |-> TRUE, val |-> <<>>]

\* a nil []string
NilSlice == [isNil |-> TRUE, val |-> <<>>]

\* extractClaims, a string field
ExtractString(tok, path) ==
    LET r == getNestedClaim(tok, path) IN
    IF path # <<>> /\ r.ok /\ r.v.t = "string" THEN r.v.v ELSE <<>>

\* extractClaims, a []string field
ExtractSlice(tok, path) ==
    LET r == getNestedClaim(tok, path) IN
    IF path # <<>> /\ r.ok /\ ~toStringSlice(r.v).err
    THEN [isNil |-> FALSE, val |-> toStringSlice(r.v).val]
    ELSE NilSlice

\* a.extractClaims(tok), a.mapping being m
extractClaims(m, tok) ==
    [UserID      |-> ExtractString(tok, m.UserID),
     TenantID    |-> ExtractString(tok, m.TenantID),
     Roles       |-> ExtractSlice(tok, m.Roles),
     Permissions |-> ExtractSlice(tok, m.Permissions)]

\* one of the sentinel errors of errors.go, e.g. ErrJWKSURLRequired
Sentinel(name) == <<[kind |-> name, code |-> "", text |-> name]>>

\* fmt.Errorf(text) and errors of the jwx library: no sentinel of the package
TextErr(text) == <<[kind |-> "new", code |-> "", text |-> text]>>

\* fmt.Errorf(text + ": %w", inner)
Wrapf(text, inner) == <<[kind |-> "wrap", code |-> "", text |-> text]>> \o inner

\* the Config values: each required field empty or set, any ClaimsMapping,
\* HTTPTimeout and Leeway zero or one second
JwConfigs ==
    [JWKSURL : {"", "https://example.com/jwks"}, Issuer : {"", "iss"},
     Audience : {"", "aud"}, ClaimsMapping : ClaimsMappings,
     HTTPTimeout : {0, 1}, Leeway : {0, 1}]

\* what the JWKS cache does during NewAuthenticator: jwk.NewCache fails,
\* cache.Register fails, the first cache.Lookup fails, or all succeed
CacheOutcomes == {"NewCache", "Register", "Lookup", "ok"}

\* Config.Validate(): the sentinel of the first required field that is empty
Validate(c) ==
    IF c.JWKSURL = "" THEN Sentinel("ErrJWKSURLRequired")
    ELSE IF c.Issuer = "" THEN Sentinel("ErrIssuerRequired")
    ELSE IF c.Audience = "" THEN Sentinel("ErrAudienceRequired")
    ELSE <<>>

\* a nil *Authenticator
NilAuthenticator == [isNil |-> TRUE]

\* fmt.Errorf("create authenticator: <field> is required")
RequiredErr(field) == <<[kind |-> "new", code |-> "", text |-> field]>>

\* NewAuthenticator(ctx, cfg), the cache behaving as env says
NewAuthenticator(c, env) ==
    IF c.JWKSURL = "" THEN [auth |-> NilAuthenticator, err |-> RequiredErr("JWKSURL")]
    ELSE IF c.Issuer = "" THEN [auth |-> NilAuthenticator, err |-> RequiredErr("Issuer")]
    ELSE IF c.Audience = "" THEN [auth |-> NilAuthenticator, err |-> RequiredErr("Audience")]
    ELSE IF env = "NewCache"
    THEN [auth |-> NilAuthenticator, err |-> Wrapf("create jwk cache", TextErr("jwk"))]
    ELSE IF env = "Register"
    THEN [auth |-> NilAuthenticator, err |-> Wrapf("register jwks url", TextErr("jwk"))]
    ELSE IF env = "Lookup"
    THEN [auth |-> NilAuthenticator,
          err |-> Wrapf("initial jwks fetch", Sentinel("ErrJWKSFetch"))]
    ELSE [auth |-> [isNil       |-> FALSE,
                    httpTimeout |-> IF c.HTTPTimeout = 0 THEN 10 ELSE c.HTTPTimeout,
                    jwksURL     |-> c.JWKSURL,
                    issuer      |-> c.Issuer,
                    audience    |-> c.Audience,
                    mapping     |-> NewMapping(c.ClaimsMapping),
                    leeway      |-> IF c.Leeway = 0 THEN 60 ELSE c.Leeway],
          err |-> <<>>]

\* a request context as far as pkg/ctxutil reads it: the request ID and the
\* claims stored in it, if any
EmptyCtx == [hasRequestID |-> FALSE, requestID |-> "", hasClaims |-> FALSE,
             claims |-> <<>>]

\* ctxutil.WithClaims(ctx, claims)
WithClaims(ctx, claims) == [ctx EXCEPT !.hasClaims = TRUE, !.claims = claims]

\* the values of the Authorization header, as words: none, another scheme,
\* the scheme alone, the scheme in lower case, no token, a token
AuthHeaders ==
    {<<>>, <<"Basic", " ", "abc123">>, <<"Bearer">>, <<"bearer", " ", "tok">>,
     <<"Bearer", " ">>, <<"Bearer", " ", "tok">>}

\* strings.HasPrefix(authHeader, "Bearer ")
HasBearerPrefix(h) == Len(h) >= 2 /\ h[1] = "Bearer" /\ h[2] = " "

\* strings.TrimPrefix(authHeader, "Bearer ")
TrimBearerPrefix(h) == IF HasBearerPrefix(h) THEN SubSeq(h, 3, Len(h)) ELSE h

\* what jwt.Parse makes of a token: it is valid, one of the four validation
\* errors of jwx, or another error whose text is given
ParseOutcomes ==
    {"ok", "jwt.TokenExpired", "jwt.TokenNotYetValid", "jwt.InvalidIssuer",
     "jwt.InvalidAudience", "signature", "verify", "malformed"}

\* the error jwt.Parse returns for an outcome
ParseErr(o) ==
    IF o \in {"signature", "verify", "malformed"} THEN TextErr(o)
    ELSE <<[kind |-> o, code |-> "", text |-> o]>>

\* strings.Contains(err.Error(), word)
Contains(err, word) == \E i \in 1..Len(err) : err[i].text = word

\* a.mapJWTError(err)
mapJWTError(err) ==
    IF Is(err, "jwt.TokenExpired") THEN Wrapf("validate token", Sentinel("ErrTokenExpired"))
    ELSE IF Is(err, "jwt.TokenNotYetValid")
    THEN Wrapf("validate token", Sentinel("ErrTokenNotYetValid"))
    ELSE IF Is(err, "jwt.InvalidIssuer")
    THEN Wrapf("validate token", Sentinel("ErrInvalidIssuer"))
    ELSE IF Is(err, "jwt.InvalidAudience")
    THEN Wrapf("validate token", Sentinel("ErrInvalidAudience"))
    ELSE IF Contains(err, "signature") \/ Contains(err, "verify")
    THEN Wrapf("verify token", Sentinel("ErrSignatureVerification"))
    ELSE Wrapf("parse token", err)

\* a.Authenticate(ctx, token): lookup tells whether the JWKS lookup succeeds,
\* parse what jwt.Parse makes of the token, tok the token it returns
Authenticate(mapping, lookup, parse, tok) ==
    IF ~lookup THEN [claims |-> <<>>, err |-> Wrapf("lookup jwks", Sentinel("ErrJWKSFetch"))]
    ELSE IF parse # "ok" THEN [claims |-> <<>>, err |-> mapJWTError(ParseErr(parse))]
    ELSE [claims |-> extractClaims(mapping, tok), err |-> <<>>]

CodeOf_Unauthenticated(err) == "unauthenticated"

\* the code mapToConnectError gives an error of Authenticate
CodeOf(err) ==
    IF \/ Is(err, "ErrTokenExpired")
       \/ Is(err, "ErrTokenNotYetValid")
       \/ Is(err, "ErrInvalidIssuer")
       \/ Is(err, "ErrInvalidAudience")
       \/ Is(err, "ErrSignatureVerification")
    THEN "unauthenticated"
    ELSE IF Is(err, "ErrJWKSFetch") THEN "unavailable"
    ELSE "unauthenticated"

\* i.mapToConnectError(err)
mapToConnectError(err) == NewError(CodeOf(err), err)

\* i.authenticate(ctx, headers) for the request that in describes
authenticate(ctx, in) ==
    IF in.header = <<>>
    THEN [ok |-> FALSE, ctx |-> EmptyCtx,
          err |-> NewError("unauthenticated", Sentinel("ErrMissingToken"))]
    ELSE IF ~HasBearerPrefix(in.header)
    THEN [ok |-> FALSE, ctx |-> EmptyCtx,
          err |-> NewError("unauthenticated", Sentinel("ErrInvalidTokenFormat"))]
    ELSE LET r == Authenticate(in.mapping, in.lookup, in.parse, in.tok) IN
         IF r.err # <<>>
         THEN [ok |-> FALSE, ctx |-> EmptyCtx, err |-> mapToConnectError(r.err)]
         ELSE [ok |-> TRUE, ctx |-> WithClaims(ctx, r.claims), err |-> NilConnectErr]

\* the tokens jwt.Parse returns to the interceptor
ParsedTokens == {<<>>, SubPath :> StringVal(<<"x">>), SubPath :> NumberVal}

\* the mappings of the Authenticator behind the interceptor
AuthMappings ==
    {NewMapping([isNil |-> TRUE]),
     NewMapping([isNil |-> FALSE, UserID |-> <<>>, TenantID |-> SubPath,
                 Roles |-> <<>>, Permissions |-> <<>>])}

\* the requests that reach the interceptor; a token that is empty never parses
JwRequests ==
    {r \in [header : AuthHeaders, isClient : BOOLEAN, lookup : BOOLEAN,
            parse : ParseOutcomes, tok : ParsedTokens, mapping : AuthMappings] :
        /\ TrimBearerPrefix(r.header) = <<>> => r.parse # "ok"
        /\ r.parse # "ok" => r.tok = <<>>}

\* next was not called
NoHandler == [called |-> FALSE, ctx |-> EmptyCtx]

\* next(ctx, ...) was called
Handler(ctx) == [called |-> TRUE, ctx |-> ctx]

\* the function WrapUnary returns, called with a request
JwWrapUnary ==
    /\ jwCall.pc = "call"
    /\ jwCall.op = "interceptor"
    /\ LET a == authenticate(EmptyCtx, jwCall.in) IN
       jwCall' = [jwCall EXCEPT
                     !.pc = "done", !.op = "WrapUnary",
                     !.out = IF jwCall.in.isClient
                             THEN [handler |-> Handler(EmptyCtx), err |-> NilConnectErr]
                             ELSE IF ~a.ok THEN [handler |-> NoHandler, err |-> a.err]
                             ELSE [handler |-> Handler(a.ctx), err |-> NilConnectErr]]
    /\ UNCHANGED <<now, shutdownVars, healthVars, txs, errCall, recCall, dlCall,
                   chCall, frCall>>

\* the function WrapStreamingHandler returns, called with a connection
JwWrapStreamingHandler ==
    /\ jwCall.pc = "call"
    /\ jwCall.op = "interceptor"
    /\ ~jwCall.in.isClient
    /\ LET a == authenticate(EmptyCtx, jwCall.in) IN
       jwCall' = [jwCall EXCEPT
                     !.pc = "done", !.op = "WrapStreamingHandler",
                     !.out = IF ~a.ok THEN [handler |-> NoHandler, err |-> a.err]
                             ELSE [handler |-> Handler(a.ctx), err |-> NilConnectErr]]
    /\ UNCHANGED <<now, shutdownVars, healthVars, txs, errCall, recCall, dlCall,
                   chCall, frCall>>

JwNext == JwWrapUnary \/ JwWrapStreamingHandler

NoJwCall == [pc |-> "idle", op |-> "", in |-> <<>>, out |-> <<>>]

\* cfg.Validate() returns
ConfigValidate ==
    /\ jwCall.pc = "call"
    /\ jwCall.op = "config"
    /\ jwCall' = [jwCall EXCEPT !.pc = "done", !.op = "Validate",
                                !.out = [err |-> Validate(jwCall.in.cfg)]]
    /\ UNCHANGED <<now, shutdownVars, healthVars, txs, errCall, recCall, dlCall,
                   chCall, frCall>>

\* NewAuthenticator(ctx, cfg) returns
CallNewAuthenticator ==
    /\ jwCall.pc = "call"
    /\ jwCall.op = "config"
    /\ jwCall' = [jwCall EXCEPT !.pc = "done", !.op = "NewAuthenticator",
                                !.out = NewAuthenticator(jwCall.in.cfg, jwCall.in.env)]
    /\ UNCHANGED <<now, shutdownVars, healthVars, txs, errCall, recCall, dlCall,
                   chCall, frCall>>

CfgNext == ConfigValidate \/ CallNewAuthenticator

\* an Authenticator made by NewAuthenticator from a Config with the
\* ClaimsMapping in.cm extracts the claims of a validated token
ExtractClaims ==
    /\ jwCall.pc = "call"
    /\ jwCall.op = "extractClaims"
    /\ jwCall' = [jwCall EXCEPT !.pc = "done",
                                !.out = extractClaims(NewMapping(jwCall.in.cm), jwCall.in.tok)]
    /\ UNCHANGED <<now, shutdownVars, healthVars, txs, errCall, recCall, dlCall,
                   chCall, frCall>>

ExNext == ExtractClaims

\* a call of getNestedClaim returns
GetNestedClaim ==
    /\ jwCall.pc = "call"
    /\ jwCall.op = "getNestedClaim"
    /\ jwCall' = [jwCall EXCEPT !.pc = "done",
                                !.out = getNestedClaim(jwCall.in.tok, jwCall.in.path)]
    /\ UNCHANGED <<now, shutdownVars, healthVars, txs, errCall, recCall, dlCall,
                   chCall, frCall>>

GetNext == GetNestedClaim

(***************************************************************************)
(* pkg/connectrpc: a unary request through a chain of interceptors         *)
(***************************************************************************)
\* ctxutil.WithRequestID(ctx, id)
WithRequestID(ctx, id) == [ctx EXCEPT !.hasRequestID = TRUE, !.requestID = id]

\* the header a request carries its ID in, if it carries one
RequestIDHeaders == {"", "X-Request-ID", "X-Custom-Request-ID"}

\* requestid: ensureRequestID(ctx, headers): the ID of the configured header,
\* a generated one without it
ensureRequestID(ctx, headerName, req) ==
    WithRequestID(ctx, IF req.ridHeader = headerName THEN "from-header" ELSE "generated")

\* the requests sent through a chain: where its request ID is, what the JWT
\* interceptor will find, whether validate accepts it, what the handler returns
RunRequests ==
    [ridHeader : RequestIDHeaders,
     jw : {r \in JwRequests :
              /\ ~r.isClient
              /\ r.header \in {<<>>, <<"Bearer", " ", "tok">>}
              /\ r.parse \in {"ok", "jwt.TokenExpired"}
              /\ r.mapping = NewMapping([isNil |-> TRUE])},
     valid : BOOLEAN,
     herr : {<<>>, <<NewNode>>}]

\* a *connect.Error as the chain errors.As walks
AsChain(ce) == IF ce.isNil THEN <<>> ELSE <<ConnectNode(ce.code)>> \o ce.err

\* logging: getStatus(err)
getStatus(err) ==
    IF err = <<>> THEN "ok"
    ELSE IF As(err, "connect") # <<>> THEN Head(As(err, "connect")).code
    ELSE "unknown"

\* logging: the record logRequest(ctx, procedure, err) writes; request_id and
\* user_id are read from the ctx the logging interceptor was called with
logRequest(ctx, err) ==
    [msg          |-> IF err = <<>> THEN "rpc completed" ELSE "rpc failed",
     level        |-> IF err = <<>> THEN "INFO" ELSE "WARN",
     status       |-> getStatus(err),
     hasRequestID |-> ctx.hasRequestID,
     request_id   |-> ctx.requestID,
     hasUserID    |-> ctx.hasClaims,
     user_id      |-> IF ctx.hasClaims THEN ctx.claims.UserID ELSE <<>>,
     hasError     |-> err # <<>>]

\* the interceptors of the chain of the call, outermost first
RunStages == chCall.res.interceptors

\* the ctx the stage at position i was called with
CtxAt(i) == chCall.run.ctxs[i]

\* a request arrives at the outermost interceptor
ChainRequest(req) ==
    /\ chCall.pc = "done"
    /\ chCall.res.kind = "ok"
    /\ chCall.run.pc = "idle"
    /\ chCall' = [chCall EXCEPT !.run = [NoRun EXCEPT !.pc = "in", !.at = 1,
                                                      !.ctxs = <<EmptyCtx>>,
                                                      !.req = req]]
    /\ UNCHANGED <<now, shutdownVars, healthVars, txs, errCall, recCall, dlCall,
                   jwCall, frCall>>

\* the interceptor at run.at is called: requestid and jwtauth derive the ctx
\* they call next with, jwtauth and validate can return without calling next
ChainEnter ==
    /\ chCall.run.pc = "in"
    /\ chCall.run.at <= Len(RunStages)
    /\ LET run == chCall.run
           st == RunStages[run.at]
           ctx == CtxAt(run.at)
           a == authenticate(ctx, run.req.jw)
           fails == \/ (st.name = "jwtauth" /\ ~a.ok)
                    \/ (st.name = "validate" /\ ~run.req.valid)
           err == IF st.name = "jwtauth" THEN AsChain(a.err)
                  ELSE <<ConnectNode("invalid_argument"), NewNode>>
           next == IF st.name = "requestid"
                   THEN ensureRequestID(ctx, st.headerName, run.req)
                   ELSE IF st.name = "jwtauth" THEN a.ctx
                   ELSE ctx
       IN  chCall' = [chCall EXCEPT
                         !.run = IF fails
                                 THEN [run EXCEPT !.pc = "out", !.at = run.at - 1, !.err = err]
                                 ELSE [run EXCEPT !.at = run.at + 1,
                                                  !.ctxs = Append(run.ctxs, next)]]
    /\ UNCHANGED <<now, shutdownVars, healthVars, txs, errCall, recCall, dlCall,
                   jwCall, frCall>>

\* the handler runs with the ctx of the innermost interceptor and returns
ChainHandler ==
    /\ chCall.run.pc = "in"
    /\ chCall.run.at = Len(RunStages) + 1
    /\ chCall' = [chCall EXCEPT !.run.pc = "out", !.run.at = Len(RunStages),
                                !.run.err = chCall.run.req.herr]
    /\ UNCHANGED <<now, shutdownVars, healthVars, txs, errCall, recCall, dlCall,
                   jwCall, frCall>>

\* next returned to the interceptor at run.at: errors maps the error, logging
\* writes its record, the others pass the result on
ChainLeave ==
    /\ chCall.run.pc = "out"
    /\ LET run == chCall.run IN
       IF run.at = 0
       THEN chCall' = [chCall EXCEPT !.run.pc = "done"]
       ELSE LET st == RunStages[run.at]
            IN  chCall' = [chCall EXCEPT
                              !.run.at = run.at - 1,
                              !.run.err = IF st.name = "errors" /\ run.err # <<>>
                                          THEN AsChain(mapError(run.err))
                                          ELSE run.err,
                              !.run.logs = IF st.name = "logging"
                                           THEN Append(run.logs,
                                                       logRequest(CtxAt(run.at), run.err))
                                           ELSE run.logs]
    /\ UNCHANGED <<now, shutdownVars, healthVars, txs, errCall, recCall, dlCall,
                   jwCall, frCall>>

RunNext ==
    \/ \E req \in RunRequests : ChainRequest(req)
    \/ ChainEnter
    \/ ChainHandler
    \/ ChainLeave

(***************************************************************************)
(* pkg/koanfutil: FileResolver                                             *)
(***************************************************************************)
\* const fileURIPrefix
fileURIPrefix == "file://"

\* the files a URI can name
FilePaths == {"/p1", "/p2"}

\* a file:// URI, as the prefix and what follows it
FileURI(path) == StringVal(<<fileURIPrefix, path>>)

\* the characters of a file: a letter and white space
ContentChars == {"s", " ", "\n"}

\* what a file can hold
Contents == UNION {[1..k -> ContentChars] : k \in 0..MaxContent}

\* the file does not exist
NoFile == <<"ENOENT">>

\* the file systems Read runs on: /p1 with any content or missing, /p2 missing
\* or holding one letter
FileSystems ==
    {("/p1" :> c1) @@ ("/p2" :> c2) : c1 \in Contents \cup {NoFile}, c2 \in {NoFile, <<"s">>}}

\* the values of a configuration that are no maps: a plain string, a URI of
\* each file, a string with the prefix inside, a number, a list holding a URI
ConfLeafs ==
    {StringVal(<<"localhost">>), FileURI("/p1"), FileURI("/p2"),
     StringVal(<<"see ", fileURIPrefix, "/p1">>), NumberVal,
     AnysVal(<<FileURI("/p1")>>)}

\* the nested maps of a configuration, with a map below them or not
ConfMaps ==
    {MapVal(m) : m \in MapsOf(Keys, ConfLeafs \cup {MapVal((<<"a">>) :> FileURI("/p1"))})}

\* what k.Raw() returns: key a holding a value that is no map, key b a map
ConfRaws ==
    {a @@ b : a \in {<<>>} \cup {(<<"a">>) :> v : v \in ConfLeafs},
              b \in {<<>>} \cup {(<<"b">>) :> m : m \in ConfMaps}}

\* strings.HasPrefix(s, fileURIPrefix)
HasFilePrefix(str) == str # <<>> /\ Head(str) = fileURIPrefix

RECURSIVE TrimLeft(_)
TrimLeft(c) == IF c # <<>> /\ Head(c) \in {" ", "\n"} THEN TrimLeft(Tail(c)) ELSE c

RECURSIVE TrimRight(_)
TrimRight(c) ==
    IF c # <<>> /\ c[Len(c)] \in {" ", "\n"} THEN TrimRight(SubSeq(c, 1, Len(c) - 1)) ELSE c

TrimSpace_None(c) == c

\* strings.TrimSpace(string(data))
TrimSpace(c) == TrimRight(TrimLeft(c))

\* the path of a URI: strings.TrimPrefix(s, fileURIPrefix)
PathOf(str) == IF Len(str) >= 2 THEN str[2] ELSE ""

\* os.ReadFile(path) fails
ReadFails(files, path) == path \notin DOMAIN files \/ files[path] = NoFile

\* resolveString(s) when it returns no error
resolveString(files, str) ==
    IF ~HasFilePrefix(str) THEN str ELSE TrimSpace(files[PathOf(str)])

RECURSIVE resolveFileURIs(_, _)
\* resolveFileURIs(m) when it returns no error
resolveFileURIs(files, m) ==
    [key \in DOMAIN m |->
        IF m[key].t = "string" THEN StringVal(resolveString(files, m[key].v))
        ELSE IF m[key].t = "map" THEN MapVal(resolveFileURIs(files, m[key].v))
        ELSE m[key]]

RECURSIVE Unresolved(_, _)
\* the URIs of m for which resolveString returns an error
Unresolved(files, m) ==
    UNION {IF m[key].t = "string"
           THEN (IF HasFilePrefix(m[key].v) /\ ReadFails(files, PathOf(m[key].v))
                 THEN {m[key].v} ELSE {})
           ELSE IF m[key].t = "map" THEN Unresolved(files, m[key].v)
           ELSE {} : key \in DOMAIN m}

NoFrCall == [pc |-> "idle", files |-> <<>>, raw |-> <<>>, before |-> <<>>,
             err |-> <<>>]

\* k.Load(koanfutil.FileResolver(k), nil): Read resolves k.Raw() and Load
\* merges the result into k; resolveFileURIs ranges over a map in any order
\* and returns at the first URI it cannot resolve, before anything is merged
FrLoad(uri) ==
    /\ frCall.pc = "call"
    /\ uri \in Unresolved(frCall.files, frCall.raw) \cup {<<>>}
    /\ uri = <<>> <=> Unresolved(frCall.files, frCall.raw) = {}
    /\ frCall' = [frCall EXCEPT
                     !.pc = "done",
                     !.raw = IF uri = <<>> THEN resolveFileURIs(frCall.files, frCall.raw)
                             ELSE frCall.raw,
                     !.err = IF uri = <<>> THEN <<>>
                             ELSE Wrapf("resolve", Wrapf("read file", TextErr(PathOf(uri))))]
    /\ UNCHANGED <<now, shutdownVars, healthVars, txs, errCall, recCall, dlCall,
                   chCall, jwCall>>

FrNext == \E uri \in {<<>>} \cup {FileURI(f).v : f \in FilePaths} : FrLoad(uri)

(***************************************************************************)
(* Specifications                                                          *)
(***************************************************************************)
\* no call into the packages modelled last is in progress
PkgInit ==
    /\ chCall = NoChCall
    /\ jwCall = NoJwCall
    /\ frCall = NoFrCall

\* no call into pkg/postgres or the errors, recovery and deadline interceptors
LibBase ==
    /\ txs = [t \in TxCallers |-> NoTx]
    /\ errCall = NoErrCall
    /\ recCall = NoRecCall
    /\ dlCall = NoDlCall

\* no call into pkg/postgres or pkg/connectrpc is in progress
LibInit == LibBase /\ PkgInit

\* pkg/shutdown and pkg/grpchealth after their construction
BaseInit == now = 0 /\ ShutdownInit /\ NewAggregator(DefaultConfig)

Init == BaseInit /\ LibInit

ShutdownSpec == Init /\ [][ShutdownNext]_vars

HealthInit ==
    now = 0 /\ ShutdownInit /\ LibInit /\ \E c \in Configs : NewAggregator(c)

HealthSpec == HealthInit /\ [][HealthNext]_vars

TxSpec == Init /\ [][TxNext]_vars

\* a handler behind the error interceptor is about to return
ErrInit ==
    /\ BaseInit
    /\ txs = [t \in TxCallers |-> NoTx]
    /\ errCall \in ErrCalls
    /\ recCall = NoRecCall
    /\ dlCall = NoDlCall
    /\ PkgInit

ErrSpec == ErrInit /\ [][ErrNext]_vars

\* a handler behind the recovery interceptor is about to return or panic
RecInit ==
    /\ BaseInit
    /\ txs = [t \in TxCallers |-> NoTx]
    /\ errCall = NoErrCall
    /\ recCall \in RecCalls
    /\ dlCall = NoDlCall
    /\ PkgInit

RecSpec == RecInit /\ [][RecNext]_vars

\* NewInterceptor is about to be called with some Config
DlInit ==
    /\ BaseInit
    /\ txs = [t \in TxCallers |-> NoTx]
    /\ errCall = NoErrCall
    /\ recCall = NoRecCall
    /\ \E c \in DlConfigs : dlCall = [NoDlCall EXCEPT !.pc = "new", !.cfg = c]
    /\ PkgInit

DlSpec == DlInit /\ [][DlNext]_vars

ChSpec == Init /\ [][ChNext]_vars

\* getNestedClaim is about to be called with some token and some path
GetInit ==
    /\ BaseInit
    /\ LibBase
    /\ chCall = NoChCall
    /\ frCall = NoFrCall
    /\ \E tok \in Tokens, path \in Paths :
           jwCall = [NoJwCall EXCEPT !.pc = "call", !.op = "getNestedClaim",
                                     !.in = [tok |-> tok, path |-> path]]

GetSpec == GetInit /\ [][GetNext]_vars

\* extractClaims is about to be called for some ClaimsMapping and some token
ExInit ==
    /\ BaseInit
    /\ LibBase
    /\ chCall = NoChCall
    /\ frCall = NoFrCall
    /\ \E cm \in ClaimsMappings, tok \in ExTokens :
           jwCall = [NoJwCall EXCEPT !.pc = "call", !.op = "extractClaims",
                                     !.in = [cm |-> cm, tok |-> tok]]

ExSpec == ExInit /\ [][ExNext]_vars

\* some Config is about to be validated or given to NewAuthenticator
CfgInit ==
    /\ BaseInit
    /\ LibBase
    /\ chCall = NoChCall
    /\ frCall = NoFrCall
    /\ \E c \in JwConfigs, env \in CacheOutcomes :
           jwCall = [NoJwCall EXCEPT !.pc = "call", !.op = "config",
                                     !.in = [cfg |-> c, env |-> env]]

CfgSpec == CfgInit /\ [][CfgNext]_vars

\* a request is about to reach the JWT interceptor
JwInit ==
    /\ BaseInit
    /\ LibBase
    /\ chCall = NoChCall
    /\ frCall = NoFrCall
    /\ \E r \in JwRequests :
           jwCall = [NoJwCall EXCEPT !.pc = "call", !.op = "interceptor", !.in = r]

JwSpec == JwInit /\ [][JwNext]_vars

\* a chain was built by BuildDefault or BuildDefaultWithAuth, with the default
\* request ID header or a custom one
RunInit ==
    /\ BaseInit
    /\ LibBase
    /\ jwCall = NoJwCall
    /\ frCall = NoFrCall
    /\ \E auth \in Auths, opts \in SeqsUpTo([kind : {"WithRequestID"}, cfg : RqConfigs], 1) :
           chCall = [NoChCall EXCEPT
                        !.pc = "done",
                        !.via = IF auth = "nil" THEN "BuildDefault"
                                ELSE "BuildDefaultWithAuth",
                        !.auth = auth,
                        !.opts = opts,
                        !.res = buildChain(ApplyOptions(NewOptions, opts), auth, FALSE)]

RunSpec == RunInit /\ [][RunNext]_vars

\* a configuration was loaded into k and FileResolver(k) is about to be loaded
FrInit ==
    /\ BaseInit
    /\ LibBase
    /\ chCall = NoChCall
    /\ jwCall = NoJwCall
    /\ \E files \in FileSystems, raw \in ConfRaws :
           frCall = [NoFrCall EXCEPT !.pc = "call", !.files = files, !.raw = raw,
                                     !.before = raw]

FrSpec == FrInit /\ [][FrNext]_vars

\* callers of Register on a new Aggregator
RegisterNext == \E n \in AllNames, c \in CheckerIds : RegisterCall(n, c)

RegisterSpec == HealthInit /\ [][RegisterNext]_vars

\* the caller that calls shutdown.Shutdown while the check loop runs
Stoppers == {1}

\* the check loop whose ctx is never cancelled, and a call of
\* shutdown.Shutdown (NewAggregator registers no handler)
StopNext ==
    \/ \E n \in Names : AggRegister(n)
    \/ \E p \in Loops : Alone(p) /\ StartRun(p)
    \/ \E p \in Loops : Snapshot(p)
    \/ \E p \in Loops, n \in Names : Launch(p, n)
    \/ \E p \in Loops, n \in Names : GoStart(p, n)
    \/ \E p \in Loops, n \in Names, o \in Outcomes : CheckReturn(p, n, o)
    \/ \E p \in Loops : Wait(p)
    \/ \E p \in Loops : UpdateStatus(p)
    \/ \E p \in Loops : SetStatus(p)
    \/ \E p \in Loops : SelectTick(p)
    \/ HealthTick
    \/ \E t \in Stoppers : CallShutdown(t)
    \/ \E t \in Stoppers : ShutdownLock(t)
    \/ \E t \in Stoppers : ShutdownFinish(t)
    \/ \E t \in Stoppers : ShutdownReturn(t)

StopSpec == HealthInit /\ [][StopNext]_vars

\* what checker.Check returns in the cycles that run side by side
ConcOutcomes == {"true", "false"}

\* check cycles side by side: Run called more than once, runChecks called
\* while a loop runs; the clock stands still
ConcNext ==
    \/ \E n \in Names : AggRegister(n)
    \/ \E p \in Loops : StartRun(p)
    \/ \E p \in Loops : CallRunChecks(p)
    \/ \E p \in Loops : Snapshot(p)
    \/ \E p \in Loops, n \in Names : Launch(p, n)
    \/ \E p \in Loops, n \in Names : GoStart(p, n)
    \/ \E p \in Loops, n \in Names, o \in ConcOutcomes : CheckReturn(p, n, o)
    \/ \E p \in Loops : Wait(p)
    \/ \E p \in Loops : UpdateStatus(p)
    \/ \E p \in Loops : SetStatus(p)

ConcSpec == Init /\ [][ConcNext]_vars

(***************************************************************************)
(* Properties of pkg/shutdown                                              *)
(***************************************************************************)
Reverse(s) == [i \in 1..Len(s) |-> s[Len(s) + 1 - i]]

IsPrefix(s, u) == Len(s) <= Len(u) /\ \A i \in 1..Len(s) : s[i] = u[i]

Range(s) == {s[i] : i \in 1..Len(s)}

\* the caller is inside the body of Shutdown, holding mu
InShutdown(t) == spc[t] \in {"loop", "handler", "return"}

\* C1: Shutdown calls the handlers in LIFO order of their registration: what
\* it has called so far is always the beginning of the reversed registration
\* order, all of it when Shutdown returns, and no handler is called while
\* another one is still running.
C1_ShutdownLIFO ==
    /\ Cardinality(running) <= 1
    /\ \A t \in Callers :
          /\ InShutdown(t) => IsPrefix(order, Reverse(snap))
          /\ spc[t] = "loop" => running = {}
          /\ spc[t] = "return" => order = Reverse(snap)

\* C1 witness: a Shutdown returns after calling three handlers whose Register
\* calls did not complete in the order they were made
C1_Witness ==
    \E t \in Callers :
        /\ spc[t] = "return"
        /\ Len(order) >= 3
        /\ \E i \in 1..(Len(registered) - 1) : registered[i] > registered[i + 1]

\* C2: Shutdown calls every registered handler, whatever the earlier ones
\* return, and returns the join of exactly the errors returned: nil when no
\* handler failed (also with no handler at all).
C2_ShutdownCollectsErrors ==
    \A t \in Callers :
        spc[t] = "return" =>
            /\ Range(order) = Range(snap)
            /\ Len(order) = Len(snap)
            /\ sret[t].isNil <=> failed = {}
            /\ Range(sret[t].errs) = {ErrOf(h) : h \in failed}
            /\ Len(sret[t].errs) = Cardinality(failed)

\* C2 witness: a Shutdown returns a joined error of two failures with a
\* succeeding handler called between the failing ones
C2_Witness ==
    \E t \in Callers :
        /\ spc[t] = "return"
        /\ Len(order) = 3
        /\ order[1] \in failed /\ order[2] \notin failed /\ order[3] \in failed
        /\ Len(sret[t].errs) = 2

\* C3: when Shutdown returns the registry is empty and every handler
\* registered so far was called exactly once; no handler is ever called
\* twice, and while no Shutdown runs the registry holds exactly the handlers
\* that were not called yet.
C3_RegistryCleared ==
    /\ \A h \in HandlerIds : invoked[h] <= 1
    /\ \A t \in Callers :
          spc[t] = "return" =>
              /\ handlers = <<>>
              /\ \A h \in Range(registered) : invoked[h] = 1
    /\ mu = 0 => handlers = SelectSeq(registered, LAMBDA h : invoked[h] = 0)

\* C3 witness: a second Shutdown returns, having called only the handler
\* registered after the first Shutdown
C3_Witness ==
    \E t \in Callers :
        /\ spc[t] = "return"
        /\ Len(snap) >= 1
        /\ Len(registered) > Len(snap)
        /\ order = Reverse(snap)

\* a handler called by the Shutdown of WaitForSignal* is running
WaitHandlerRunning == \E t \in Waiters : spc[t] = "handler" /\ viaWait # ""

\* C4: WaitForSignalWithTimeout calls Shutdown only once the signal context
\* is done, and every handler is given a context that does not descend from
\* the parent: it is never cancelled, also when the parent is, and it has the
\* deadline (instant the signal context was found done) + timeout; its Err()
\* is nil if the handler is called before that deadline and DeadlineExceeded
\* if it is called later.
C4_HandlerCtxFresh ==
    /\ \A t \in Waiters : (viaWait # "" /\ spc[t] # "wait") => SigCtxDone
    /\ WaitHandlerRunning =>
          /\ seen.err # "Canceled"
          /\ seen.hasDeadline
          /\ seen.deadline = ctxAt + stimeout
          /\ seen.err = "nil" <=> seen.at < seen.deadline

\* C4 witness: no signal was delivered, the parent context is cancelled, and
\* a handler runs with a context that is not done
C4_Witness ==
    /\ WaitHandlerRunning
    /\ viaWait = "WaitForSignalWithTimeout"
    /\ ~sigCtx
    /\ parentCtx.canceled
    /\ seen.err = "nil"
    /\ seen.deadline = ctxAt + stimeout

(***************************************************************************)
(* Properties of pkg/grpchealth                                            *)
(***************************************************************************)
\* a check cycle has completed and no later one has started
CycleCompleted == last.who # 0

\* goroutine p is in updateStatus, or about to call it
Updating(p) == lpc[p] \in {"updateStatus", "SetStatus"}

\* C5: a new Aggregator is not serving: until the first updateStatus, the
\* step that completes the first check cycle, IsServing() is false and the
\* endpoint status of "" is NotServing, whatever is registered meanwhile.
C5_NewNotServing == ~updated => (~IsServing /\ status = "NotServing")

\* C5 witness: checkers are registered, the first cycle is in progress and a
\* checker has already answered true, and no updateStatus has run yet
C5_Witness ==
    /\ ~updated
    /\ Cardinality(services) >= 2
    /\ \E p \in Loops, n \in Names : g[p][n] = "done" /\ out[p][n] = "true"

\* C6: after a check cycle completed, the Aggregator is serving exactly when
\* every checker registered when the cycle started returned true (so it is
\* serving after a cycle with no checker), and the endpoint says the same.
C6_ServingIffAllTrue ==
    CycleCompleted =>
        /\ IsServing <=> \A n \in last.snap : last.out[n] = "true"
        /\ status = IF IsServing THEN "Serving" ELSE "NotServing"
        /\ last.snap \subseteq services

\* C6 witness: a cycle completed serving with a checker that returned true,
\* while another checker, registered during the cycle, was not probed
C6_Witness ==
    /\ CycleCompleted
    /\ IsServing
    /\ last.snap # {}
    /\ services # last.snap

\* C7: a panic in a checker is contained: no panic leaves its goroutine, the
\* checker that panicked is recorded unhealthy, every checker of the cycle has
\* its result recorded before updateStatus, the cycle ends not serving, and
\* the loop of Run goes on.
C7_PanicContained ==
    /\ ~crashed
    /\ \A p \in Loops :
          Updating(p) =>
              /\ DOMAIN results[p] = csnap[p]
              /\ \A n \in csnap[p] :
                    out[p][n] = "panic" => (~results[p][n] /\ ~allHealthy[p])
    /\ (CycleCompleted /\ \E n \in last.snap : last.out[n] = "panic") =>
          /\ ~IsServing
          /\ status = "NotServing"
          /\ mode[last.who] = "Run" => lpc[last.who] \in {"select", "runChecks"}

\* C7 witness: a cycle of Run completed in which one checker panicked and the
\* other one returned true
C7_Witness ==
    /\ CycleCompleted
    /\ mode[last.who] = "Run"
    /\ \E n, m \in last.snap : last.out[n] = "panic" /\ last.out[m] = "true"

\* C8: the context of every checker has the deadline (instant it was made) +
\* Config.Timeout and is done from that instant on, and a cycle in which a
\* checker returned false because it found its context done ends not serving.
C8_CheckTimeout ==
    /\ \A p \in Loops, n \in Names :
          g[p][n] = "checking" =>
              /\ gctx[p][n].hasDeadline
              /\ gctx[p][n].deadline = gat[p][n] + cfg.Timeout
              /\ now >= gat[p][n] + cfg.Timeout => CheckCtxErr(p, n) # "nil"
    /\ (CycleCompleted /\ \E n \in last.snap : last.out[n] = "ctxdone") =>
          (~IsServing /\ status = "NotServing")

\* C8 witness: a cycle of Run completed in which a checker gave up on its
\* timeout (the context of Run was not cancelled) and the other returned true
C8_Witness ==
    /\ CycleCompleted
    /\ mode[last.who] = "Run"
    /\ ~rctx[last.who].canceled
    /\ \E n, m \in last.snap : last.out[n] = "ctxdone" /\ last.out[m] = "true"
    /\ ~IsServing

\* C9: the checkers of a cycle are probed in parallel: starting the goroutine
\* of a checker, and its call of Check, never wait for another checker, and
\* updateStatus is reached only after every checker of the cycle returned.
C9_ParallelProbing ==
    \A p \in Loops :
        /\ Updating(p) => \A n \in csnap[p] : g[p][n] = "done"
        /\ \A n \in Names :
              /\ (lpc[p] = "launch" /\ n \in csnap[p] /\ g[p][n] = "none")
                    => ENABLED Launch(p, n)
              /\ g[p][n] = "spawned" => ENABLED GoStart(p, n)

\* C9 witness: two checkers of one cycle are inside Check at once
C9_Witness ==
    \E p \in Loops : Cardinality({n \in Names : g[p][n] = "checking"}) >= 2

\* C10 as claimed: NewAggregator starts the check loop itself: once a checker
\* is registered a goroutine is in Run although no caller has invoked Run.
C10_LoopStartedByNewAggregator ==
    (services # {} /\ ~callerStarted) => \E p \in Loops : mode[p] = "Run"


(***************************************************************************)
(* Properties of the Run loop                                              *)
(***************************************************************************)
\* C11: once the ctx of Run is cancelled, Run starts at most one further
\* check cycle, and once Run has returned no checker is being probed
C11_CancelStopsLoop ==
    /\ ~shutdownDone => lateCycles <= 1
    /\ \A p \in Loops : mode[p] = "" => \A n \in Names : g[p][n] = "none"

\* C12: after a shutdown.Shutdown call has returned while Run was running,
\* Run starts at most one further check cycle, its ctx being never cancelled
C12_ShutdownStopsLoop ==
    (shutdownDone /\ \A p \in Loops : ~rctx[p].canceled) => lateCycles <= 1

(***************************************************************************)
(* Properties of Aggregator.Register                                       *)
(***************************************************************************)
\* C13: Register panics exactly when the name is empty or already
\* registered, and then a.services is as before the call (the first checker
\* of the name is kept); otherwise the checker is stored under the name and
\* nothing else changes; the empty name is never registered
C13_RegisterPanics ==
    /\ rres.called =>
        LET n == rres.name
            b == rres.before
        IN  /\ rres.panicked <=> (n = EmptyName \/ b[n] # NoChecker)
            /\ rres.panicked => checkers = b
            /\ ~rres.panicked => checkers = [b EXCEPT ![n] = rres.checker]
    /\ checkers[EmptyName] = NoChecker
    /\ services = {n \in AllNames : checkers[n] # NoChecker}

\* a second Register of a name, with another checker, has panicked
C13_Witness ==
    /\ rres.called /\ rres.panicked
    /\ rres.name # EmptyName
    /\ rres.checker # rres.before[rres.name]
    /\ checkers[rres.name] = rres.before[rres.name]

(***************************************************************************)
(* Properties of updateStatus                                              *)
(***************************************************************************)
\* C14 as stated: the status is debounced, a.serving flips only when the
\* cycle before had that aggregate result already
C14_Debounced == [][serving' # serving => prevAgg = AggOf(serving')]_vars

\* C14 as amended: there is no debouncing, a.serving is the aggregate result
\* of the cycle that reached updateStatus last, and once that cycle is
\* through SetStatus the endpoint shows it
C14_StatusFollowsLastCycle ==
    prevAgg # "none" =>
        /\ serving = (prevAgg = "healthy")
        /\ (\A p \in Loops : lpc[p] # "SetStatus")
               => status = IF serving THEN "Serving" ELSE "NotServing"

\* one cycle has flipped a.serving from true to false; the endpoint still
\* shows the status the cycle before gave
C14_Witness ==
    \E p \in Loops : /\ lpc[p] = "SetStatus"
                     /\ changed[p]
                     /\ ~serving
                     /\ status = "Serving"

(***************************************************************************)
(* Properties of WithTx                                                    *)
(***************************************************************************)
\* how many times the entries xs occur in the log of caller t
TxCount(t, xs) == Cardinality({i \in DOMAIN txs[t].log : txs[t].log[i] \in xs})

CommitCalled(t) == TxCount(t, {"Commit", "CommitFailed"}) = 1

RollbackCalled(t) == TxCount(t, {"Rollback", "RollbackFailed"}) = 1

\* what holds of every finished WithTx call whatever error it returns
TxCommitOrRollback(t) ==
    LET x == txs[t] IN
    /\ CommitCalled(t) <=> x.fn.kind = "nil"
    /\ x.fn.kind \in {"error", "panic"} => (RollbackCalled(t) /\ ~CommitCalled(t))
    /\ x.fn.kind = "panic" =>
           /\ x.ret = PanicRet(x.fn.val)
           /\ x.log[Len(x.log)] \in {"Rollback", "RollbackFailed"}
    /\ x.log[1] = "BeginFailed" =>
           /\ x.fn = NoFn
           /\ x.log = <<"BeginFailed">>
           /\ x.ret.kind = "error"

\* C15 as stated: commit iff fn returns nil, rollback on error or panic, the
\* panic re-raised after the rollback, fn not called when Begin fails, and
\* the error of fn returned to the caller
C15_TxContract ==
    \A t \in TxCallers : txs[t].pc = "return" =>
        /\ TxCommitOrRollback(t)
        /\ txs[t].fn.kind = "error" => txs[t].ret = FnErr(txs[t].fn.val)

\* C15 as amended: the error of fn is returned when the rollback succeeds;
\* when the rollback fails its error is returned, wrapped, with the error of
\* fn only quoted in the message
C15_TxContractAmended ==
    \A t \in TxCallers : txs[t].pc = "return" =>
        /\ TxCommitOrRollback(t)
        /\ txs[t].fn.kind = "error" =>
               txs[t].ret =
                   IF TxCount(t, {"RollbackFailed"}) = 1
                   THEN [kind |-> "error", prefix |-> "rollback transaction",
                         cause |-> <<"Rollback", 0>>,
                         original |-> <<"fn", txs[t].fn.val>>]
                   ELSE FnErr(txs[t].fn.val)

\* fn returned an error and the rollback failed; another caller committed
C15_Witness ==
    \E t, u \in TxCallers :
        /\ txs[t].pc = "return"
        /\ txs[t].fn.kind = "error"
        /\ txs[t].log = <<"Begin", "fn", "RollbackFailed">>
        /\ txs[u].pc = "return"
        /\ txs[u].log = <<"Begin", "fn", "Commit">>

(***************************************************************************)
(* Properties of the error interceptor                                     *)
(***************************************************************************)
\* the chain holds an error of that kind
Has(e, kind) == \E i \in DOMAIN e : e[i].kind = kind

\* the outermost error of that kind
FirstIdx(e, kind) ==
    CHOOSE i \in DOMAIN e : e[i].kind = kind /\ \A j \in 1..(i - 1) : e[j].kind # kind

\* the error matches one of the rules 1 to 4
Mapped(e) ==
    Has(e, "canceled") \/ Has(e, "deadline") \/ Has(e, "coder") \/ Has(e, "connect")

ErrDone == errCall.pc = "done"

\* C16: a nil error stays nil; any other error becomes a *connect.Error
\* chosen by the first rule that matches: Canceled, DeadlineExceeded,
\* ConnectCoder (its code), *connect.Error (that error itself), else internal
C16_ErrorPriority ==
    ErrDone =>
        LET e == errCall.herr
            r == errCall.out
        IN  IF e = <<>> THEN r.isNil
            ELSE /\ ~r.isNil
                 /\ IF Has(e, "canceled") THEN r.code = "canceled"
                    ELSE IF Has(e, "deadline") THEN r.code = "deadline_exceeded"
                    ELSE IF Has(e, "coder") THEN r.code = e[FirstIdx(e, "coder")].code
                    ELSE IF Has(e, "connect")
                         THEN LET i == FirstIdx(e, "connect")
                              IN  r = NewError(e[i].code, SubSeq(e, i + 1, Len(e)))
                    ELSE r.code = "internal"

\* a ConnectCoder that wraps a connect.Error that wraps context.Canceled was
\* mapped, with the response of the unary handler passed on
C16_Witness ==
    /\ ErrDone
    /\ Len(errCall.herr) = 3
    /\ errCall.herr[1].kind = "coder"
    /\ errCall.herr[2].kind = "connect"
    /\ errCall.herr[3].kind = "canceled"
    /\ errCall.out.code = "canceled"
    /\ errCall.outResp = 1

\* C17: every error that matches none of the rules 1 to 4 gets one and the
\* same reply, code internal with the message "internal error", holding no
\* part of the error: so any two such errors get equal replies
C17_UnmappedHidden ==
    (ErrDone /\ errCall.herr # <<>> /\ ~Mapped(errCall.herr)) =>
        /\ errCall.out = NewError("internal", <<InternalNode>>)
        /\ Message(errCall.out) = <<"internal error">>
        /\ \A i \in DOMAIN errCall.herr, j \in DOMAIN errCall.out.err :
               errCall.out.err[j] # errCall.herr[i]

\* an error wrapped twice that matches no rule was replaced
C17_Witness ==
    /\ ErrDone
    /\ errCall.herr = <<WrapNode, WrapNode, NewNode>>
    /\ errCall.out.code = "internal"

\* C18 as stated: for an error matching a rule 1 to 4 the message of the
\* reply is the message of the error the handler returned (its Error(), or
\* its Message() when it is a connect.Error), wrapped or not
C18_MessagePreserved ==
    (ErrDone /\ errCall.herr # <<>> /\ Mapped(errCall.herr)) =>
        \/ Message(errCall.out) = ErrorString(errCall.herr)
        \/ /\ errCall.herr[1].kind = "connect"
           /\ Message(errCall.out) = ErrorString(Tail(errCall.herr))

\* C18 as amended: under the rules 1 to 3 the message of the reply is the
\* whole Error() of the handler's error, wrappers included; under rule 4 it
\* is the message of the connect.Error found, without the text of the errors
\* that wrap it
C18_MessageOfMatched ==
    (ErrDone /\ errCall.herr # <<>> /\ Mapped(errCall.herr)) =>
        LET e == errCall.herr IN
        IF Has(e, "canceled") \/ Has(e, "deadline") \/ Has(e, "coder")
        THEN Message(errCall.out) = ErrorString(e)
        ELSE Message(errCall.out)
                 = ErrorString(SubSeq(e, FirstIdx(e, "connect") + 1, Len(e)))

\* a wrapped connect.Error was returned as it is: the wrapper's text is gone
C18_Witness ==
    /\ ErrDone
    /\ errCall.herr = <<WrapNode, ConnectNode("not_found"), NewNode>>
    /\ Message(errCall.out) = <<"sql error">>

(***************************************************************************)
(* Properties of the recovery interceptor                                  *)
(***************************************************************************)
\* C19: a panic of the handler, unary or streaming, never leaves the
\* interceptor: the response is nil, the error is code internal with the
\* message "internal error" whatever the panic value, and one record is
\* logged; without a panic the response and the error of the handler are
\* returned as they are and nothing is logged
C19_PanicRecovered ==
    recCall.pc = "done" =>
        LET o == recCall.outcome IN
        /\ ~recCall.escaped
        /\ IF o.kind = "panic"
           THEN /\ recCall.resp = 0
                /\ recCall.err = <<ConnectNode("internal"), InternalNode>>
                /\ ErrorString(Tail(recCall.err)) = <<"internal error">>
                /\ Len(recCall.logs) = 1
                /\ recCall.logs[1].panic = o.val
                /\ recCall.logs[1].procedure = Procedure(recCall.via)
           ELSE /\ recCall.resp = o.resp
                /\ recCall.err = o.err
                /\ recCall.logs = <<>>

\* a streaming handler has panicked with nil and the panic was turned into
\* the error
C19_Witness ==
    /\ recCall.pc = "done"
    /\ recCall.via = "stream"
    /\ recCall.outcome.kind = "panic"
    /\ recCall.outcome.val = "nil"
    /\ recCall.err = RecoveredErr
    /\ Len(recCall.logs) = 1

(***************************************************************************)
(* Properties of the deadline interceptor                                  *)
(***************************************************************************)
Min(a, b) == IF a < b THEN a ELSE b

\* a server-side unary handler is running behind the interceptor
DlServerCall == dlCall.pc = "done" /\ ~dlCall.isClient

DlInvalid(c) ==
    \/ c.DefaultTimeout <= 0
    \/ (c.MaxTimeout # 0 /\ c.MaxTimeout < c.DefaultTimeout)

\* C21: NewInterceptor panics exactly when the configuration is invalid
\* (DefaultTimeout not positive, or MaxTimeout set and smaller than
\* DefaultTimeout); every configuration it accepts has DefaultTimeout > 0
\* and a MaxTimeout that is zero or at least DefaultTimeout
C21_NewInterceptorValidates ==
    dlCall.pc # "new" =>
        LET c == dlCall.cfg IN
        /\ (dlCall.pc = "panicked") <=> DlInvalid(c)
        /\ dlCall.pc # "panicked" =>
               /\ c.DefaultTimeout > 0
               /\ (c.MaxTimeout = 0 \/ c.MaxTimeout >= c.DefaultTimeout)

(***************************************************************************)
(* Properties of the default interceptor chain                             *)
(***************************************************************************)
RECURSIVE NamesOf(_)
NamesOf(stages) ==
    IF stages = <<>> THEN <<>> ELSE <<Head(stages).name>> \o NamesOf(Tail(stages))

DefaultOrder ==
    <<"recovery", "deadline", "requestid", "otel", "logging", "validate", "errors">>

AuthOrder ==
    <<"recovery", "deadline", "requestid", "otel", "logging", "jwtauth", "validate",
      "errors">>

ChDone == chCall.pc = "done"

\* the configuration of the last option of a kind among the call's opts, or
\* the default when there is none
LastCfg(kind, default) ==
    LET idx == {i \in 1..Len(chCall.opts) : chCall.opts[i].kind = kind}
    IN  IF idx = {} THEN default
        ELSE chCall.opts[CHOOSE i \in idx : \A j \in idx : j <= i].cfg

\* C22: BuildDefault returns exactly 7 interceptors in the order recovery,
\* deadline, requestid, otel, logging, validate, errors; BuildDefaultWithAuth
\* returns 8, jwtauth between logging and validate, and an error and no
\* interceptors for a nil authenticator; options never change count or order
C22_ChainOrder ==
    ChDone =>
        /\ chCall.via = "BuildDefault" =>
               /\ chCall.res.kind = "ok"
               /\ Len(chCall.res.interceptors) = 7
               /\ NamesOf(chCall.res.interceptors) = DefaultOrder
        /\ (chCall.via = "BuildDefaultWithAuth" /\ chCall.auth # "nil") =>
               /\ chCall.res.kind = "ok"
               /\ Len(chCall.res.interceptors) = 8
               /\ NamesOf(chCall.res.interceptors) = AuthOrder
        /\ (chCall.via = "BuildDefaultWithAuth" /\ chCall.auth = "nil") =>
               /\ chCall.res.kind = "error"
               /\ chCall.res.interceptors = <<>>

\* C22 amended: a nil authenticator gives an error and no interceptors;
\* otherwise a deadline configuration that deadline.NewInterceptor rejects
\* makes the call panic, a failing otelconnect.NewInterceptor makes it return
\* an error and no interceptors, and every other call returns the 7 (8 with
\* an authenticator) interceptors in the stated order, the deadline and
\* requestid stages carrying the last configuration given by an option or
\* the default one
C22_ChainOrderWhenBuilt ==
    ChDone =>
        LET r == chCall.res
            withAuth == chCall.via = "BuildDefaultWithAuth"
            d == LastCfg("WithDeadline", DlDefaultConfig)
            q == LastCfg("WithRequestID", RqDefaultConfig)
            rejected == \/ d.DefaultTimeout <= 0
                        \/ (d.MaxTimeout > 0 /\ d.MaxTimeout < d.DefaultTimeout)
        IN  IF withAuth /\ chCall.auth = "nil"
            THEN r.kind = "error" /\ r.interceptors = <<>>
            ELSE IF rejected
            THEN r.kind = "panic" /\ r.interceptors = <<>>
            ELSE IF chCall.otelErr
            THEN r.kind = "error" /\ r.interceptors = <<>>
            ELSE /\ r.kind = "ok"
                 /\ Len(r.interceptors) = IF withAuth THEN 8 ELSE 7
                 /\ NamesOf(r.interceptors) = IF withAuth THEN AuthOrder ELSE DefaultOrder
                 /\ r.interceptors[2].cfg = d
                 /\ r.interceptors[3].headerName =
                        IF q.HeaderName = "" THEN "X-Request-ID" ELSE q.HeaderName

\* both options were given, the deadline one twice, to a chain with jwtauth
C22_Witness ==
    /\ ChDone
    /\ chCall.via = "BuildDefaultWithAuth"
    /\ chCall.res.kind = "ok"
    /\ Len(chCall.res.interceptors) = 8
    /\ Len(chCall.opts) = 2
    /\ chCall.opts[1].kind = "WithDeadline"
    /\ chCall.opts[2].kind = "WithRequestID"
    /\ chCall.res.interceptors[3].headerName = "X-Custom-Request-ID"
    /\ chCall.res.interceptors[2].cfg = chCall.opts[1].cfg

(***************************************************************************)
(* Properties of pkg/connectrpc/jwtauth                                    *)
(***************************************************************************)
\* the positions of the separators of a path, with both ends
Cuts(path) == {0, Len(path) + 1} \cup {i \in 1..Len(path) : path[i] = "."}

\* the k-th segment of a path: what lies between its k-th and next cut
Segment(path, k) ==
    LET c == Cuts(path)
        from == CHOOSE i \in c : Cardinality({j \in c : j < i}) = k - 1
        to == CHOOSE i \in c : Cardinality({j \in c : j < i}) = k
    IN  SubSeq(path, from + 1, to - 1)

NumSegments(path) == Cardinality(Cuts(path)) - 1

NoValue == [t |-> "none", v |-> <<>>]

RECURSIVE ReachedAt(_, _, _)
\* the value the first k segments of a path lead to in a token, NoValue when
\* a segment is no claim, no key, or steps into a value that is no map
ReachedAt(tok, path, k) ==
    IF k = 1
    THEN IF Segment(path, 1) \in DOMAIN tok THEN tok[Segment(path, 1)] ELSE NoValue
    ELSE LET prev == ReachedAt(tok, path, k - 1) IN
         IF prev.t = "map" /\ Segment(path, k) \in DOMAIN prev.v
         THEN prev.v[Segment(path, k)]
         ELSE NoValue

GetDone == jwCall.pc = "done" /\ jwCall.op = "getNestedClaim"

\* C26: getNestedClaim returns (value, true) exactly when the first segment
\* of the dot-separated path is a claim of the token and every following
\* segment is a key of the map reached so far, value being what the path
\* ends at; it returns (nil, false) for an empty path, a missing segment and
\* a step into a value that is no map
C26_NestedClaim ==
    GetDone =>
        LET tok == jwCall.in.tok
            path == jwCall.in.path
            end == IF path = <<>> THEN NoValue
                   ELSE ReachedAt(tok, path, NumSegments(path))
        IN  IF end = NoValue
            THEN jwCall.out = [v |-> [t |-> "nil", v |-> <<>>], ok |-> FALSE]
            ELSE jwCall.out = [v |-> end, ok |-> TRUE]

\* a path of three segments resolved through two maps
C26_Witness ==
    /\ GetDone
    /\ jwCall.in.path = <<"a", ".", "b", ".", "a">>
    /\ jwCall.out.ok
    /\ jwCall.out.v = StringVal(<<"x">>)

ExDone == jwCall.pc = "done" /\ jwCall.op = "extractClaims"

\* the path a field of the configured mapping names; "" when there is no
\* mapping, and "sub" for a UserID that is not configured
ConfiguredPath(field) ==
    LET cm == jwCall.in.cm
        path == IF cm.isNil THEN <<>> ELSE cm[field]
    IN  IF field = "UserID" /\ path = <<>> THEN SubPath ELSE path

\* what a path resolves to in the token of the call, NoValue when it does not
ResolvedAt(path) ==
    IF path = <<>> THEN NoValue
    ELSE ReachedAt(jwCall.in.tok, path, NumSegments(path))

\* the positions where a word of a string starts
WordStarts(str) ==
    {i \in 1..Len(str) : str[i] # " " /\ (i = 1 \/ str[i - 1] = " ")}

\* the word of a string that starts at position i
WordAt(str, i) ==
    LET ends == {j \in i..Len(str) : j = Len(str) \/ str[j + 1] = " "}
    IN  SubSeq(str, i, CHOOSE j \in ends : \A k \in ends : j <= k)

\* a string split on white space
SplitOnSpace(str) ==
    LET st == WordStarts(str)
    IN  [k \in 1..Cardinality(st) |->
            WordAt(str, CHOOSE i \in st : Cardinality({j \in st : j < i}) = k - 1)]

IsStringElem(e) == e.t = "string"

\* the []string a value converts to
Converted(v) ==
    IF v.t = "[]string" THEN v.v
    ELSE IF v.t = "[]any"
    THEN LET kept == SelectSeq(v.v, IsStringElem) IN [i \in 1..Len(kept) |-> kept[i].v]
    ELSE SplitOnSpace(v.v)

\* C27: claims extraction never fails and fills each field on its own: a
\* field is set only when its path is not empty, resolves in the token and
\* has a convertible type (string for UserID and TenantID; for Roles and
\* Permissions a []string as it is, a []any keeping its string elements in
\* order, a string split on white space) and keeps its zero value otherwise;
\* the UserID path is "sub" when no mapping or no UserID path is configured
C27_ClaimsExtraction ==
    ExDone =>
        /\ \A f \in {"UserID", "TenantID"} :
               LET v == ResolvedAt(ConfiguredPath(f)) IN
               jwCall.out[f] = IF v.t = "string" THEN v.v ELSE <<>>
        /\ \A f \in {"Roles", "Permissions"} :
               LET v == ResolvedAt(ConfiguredPath(f)) IN
               IF v.t \in {"[]string", "[]any", "string"}
               THEN jwCall.out[f] = [isNil |-> FALSE, val |-> Converted(v)]
               ELSE jwCall.out[f] = [isNil |-> TRUE, val |-> <<>>]

\* no UserID path was configured, roles come from a []any with a number in
\* it, permissions from a string with two words, the tenant from a nested claim
C27_Witness ==
    /\ ExDone
    /\ ~jwCall.in.cm.isNil
    /\ jwCall.in.cm.UserID = <<>>
    /\ jwCall.out.UserID = <<"x">>
    /\ jwCall.out.TenantID = <<"y">>
    /\ jwCall.in.cm.Roles = APath
    /\ APath \in DOMAIN jwCall.in.tok
    /\ jwCall.in.tok[APath] = AnysVal(<<NumberVal, StringVal(<<"y">>)>>)
    /\ jwCall.out.Roles = [isNil |-> FALSE, val |-> << <<"y">> >>]
    /\ jwCall.out.Permissions = jwCall.out.Roles

CfgDone == jwCall.pc = "done" /\ jwCall.op \in {"Validate", "NewAuthenticator"}

\* the sentinel of the first required field of a Config that is empty, ""
\* when none is
MissingField(c) ==
    IF c.JWKSURL = "" THEN "ErrJWKSURLRequired"
    ELSE IF c.Issuer = "" THEN "ErrIssuerRequired"
    ELSE IF c.Audience = "" THEN "ErrAudienceRequired"
    ELSE ""

\* C24: Config.Validate and NewAuthenticator return an error for which
\* errors.Is matches ErrJWKSURLRequired when JWKSURL is empty,
\* ErrIssuerRequired when Issuer is empty and ErrAudienceRequired when
\* Audience is empty, checked in that order; Validate returns nil when all
\* three are set
C24_ConfigSentinels ==
    CfgDone =>
        LET missing == MissingField(jwCall.in.cfg) IN
        /\ missing # "" => Is(jwCall.out.err, missing)
        /\ (missing = "" /\ jwCall.op = "Validate") => jwCall.out.err = <<>>

\* a server-side call went through the JWT interceptor
JwServerDone ==
    /\ jwCall.pc = "done"
    /\ jwCall.op \in {"WrapUnary", "WrapStreamingHandler"}
    /\ ~jwCall.in.isClient

\* the request carries a Bearer token that the JWKS lookup and jwt.Parse accept
Authenticated(r) ==
    /\ Len(r.header) >= 2
    /\ SubSeq(r.header, 1, 2) = <<"Bearer", " ">>
    /\ r.lookup
    /\ r.parse = "ok"

\* C23: the JWT interceptor calls the server-side handler only when
\* authentication succeeded: a missing Authorization header gives
\* CodeUnauthenticated wrapping ErrMissingToken, a header without the
\* "Bearer " prefix CodeUnauthenticated wrapping ErrInvalidTokenFormat, a
\* failed JWKS lookup CodeUnavailable, every other validation failure
\* CodeUnauthenticated; on success the handler runs with the extracted
\* claims in its context
C23_AuthBeforeHandler ==
    JwServerDone =>
        LET r == jwCall.in
            o == jwCall.out
            prefixed == Len(r.header) >= 2 /\ SubSeq(r.header, 1, 2) = <<"Bearer", " ">>
        IN  /\ o.handler.called <=> Authenticated(r)
            /\ o.handler.called <=> o.err.isNil
            /\ r.header = <<>> =>
                   o.err.code = "unauthenticated" /\ Is(o.err.err, "ErrMissingToken")
            /\ (r.header # <<>> /\ ~prefixed) =>
                   o.err.code = "unauthenticated" /\ Is(o.err.err, "ErrInvalidTokenFormat")
            /\ (prefixed /\ ~r.lookup) =>
                   o.err.code = "unavailable" /\ Is(o.err.err, "ErrJWKSFetch")
            /\ (prefixed /\ r.lookup /\ r.parse # "ok") => o.err.code = "unauthenticated"
            /\ Authenticated(r) =>
                   /\ o.handler.ctx.hasClaims
                   /\ o.handler.ctx.claims = extractClaims(r.mapping, r.tok)

\* a stream whose token is valid while the JWKS cannot be fetched
C23_Witness ==
    /\ JwServerDone
    /\ jwCall.op = "WrapStreamingHandler"
    /\ jwCall.in.header = <<"Bearer", " ", "tok">>
    /\ ~jwCall.in.lookup
    /\ jwCall.in.parse = "ok"
    /\ ~jwCall.out.handler.called
    /\ jwCall.out.err.code = "unavailable"

(***************************************************************************)
(* Properties of a request through the default chain                       *)
(***************************************************************************)
\* a request went through the chain of BuildDefaultWithAuth, was
\* authenticated and reached the handler
RunAuthenticated ==
    /\ chCall.run.pc = "done"
    /\ chCall.via = "BuildDefaultWithAuth"
    /\ Authenticated(chCall.run.req.jw)
    /\ chCall.run.req.valid

KeyPaths == UNION {[1..k -> Keys] : k \in 1..3}

RECURSIVE ValueAt(_, _)
\* the value a key path leads to in a configuration, NoValue when it leads
\* nowhere
ValueAt(m, kp) ==
    IF Head(kp) \notin DOMAIN m THEN NoValue
    ELSE IF Len(kp) = 1 THEN m[Head(kp)]
    ELSE IF m[Head(kp)].t # "map" THEN NoValue
    ELSE ValueAt(m[Head(kp)].v, Tail(kp))

\* a value that is a string starting with file://
IsFileURI(v) == v.t = "string" /\ v.v # <<>> /\ v.v[1] = "file://"

\* a content without the white space at its ends
Trimmed(c) ==
    LET idx == {i \in 1..Len(c) : c[i] \notin {" ", "\n"}}
    IN  IF idx = {} THEN <<>>
        ELSE SubSeq(c, CHOOSE i \in idx : \A j \in idx : i <= j,
                       CHOOSE i \in idx : \A j \in idx : j <= i)

FrDone == frCall.pc = "done"

\* some file:// URI of the configuration names a file that cannot be read
FrUnresolvable ==
    \E kp \in KeyPaths :
        LET v == ValueAt(frCall.before, kp) IN
        IsFileURI(v) /\ frCall.files[v.v[2]] = <<"ENOENT">>

\* C25: after FileResolver is loaded every string value that starts with
\* file:// is replaced by the white-space-trimmed content of the named file,
\* at any nesting depth, and every other value is unchanged; if a file:// URI
\* cannot be resolved an error is returned and nothing of the configuration
\* is resolved
C25_FileURIsResolved ==
    FrDone =>
        IF FrUnresolvable
        THEN frCall.err # <<>> /\ frCall.raw = frCall.before
        ELSE /\ frCall.err = <<>>
             /\ DOMAIN frCall.raw = DOMAIN frCall.before
             /\ \A kp \in KeyPaths :
                    LET b == ValueAt(frCall.before, kp)
                        a == ValueAt(frCall.raw, kp)
                    IN  IF IsFileURI(b) THEN a = StringVal(Trimmed(frCall.files[b.v[2]]))
                        ELSE IF b.t = "map" THEN a.t = "map" /\ DOMAIN a.v = DOMAIN b.v
                        ELSE a = b

\* a URI three maps deep was replaced by the trimmed content of its file,
\* beside a plain string that stayed
C25_Witness ==
    /\ FrDone
    /\ frCall.err = <<>>
    /\ frCall.files["/p1"] = <<" ", "s", "\n">>
    /\ ValueAt(frCall.before, << <<"b">>, <<"a">>, <<"a">> >>) = FileURI("/p1")
    /\ ValueAt(frCall.raw, << <<"b">>, <<"a">>, <<"a">> >>) = StringVal(<<"s">>)
    /\ ValueAt(frCall.raw, << <<"a">> >>) = StringVal(<<"localhost">>)

(***************************************************************************)
(* Properties of pkg/grpchealth: check cycles side by side                 *)
(***************************************************************************)
\* a goroutine is in updateStatus, or about to enter it with its result
UpdateInProgress == \E p \in Loops : lpc[p] \in {"updateStatus", "SetStatus"}

\* C28: whenever no status update is in progress, IsServing() is true exactly
\* when the health endpoint reports StatusServing, check cycles running side
\* by side included
C28_ServingAgreesWithEndpoint ==
    ~UpdateInProgress => (IsServing <=> status = "Serving")

(***************************************************************************)
(* Properties of pkg/shutdown: Register while Shutdown runs                *)
(***************************************************************************)
\* the handlers whose Register returned and that no Shutdown has called
NotCalled == SelectSeq(registered, LAMBDA h : invoked[h] = 0)

\* C29: Register and Shutdown exclude each other through mu, held for the
\* whole of Shutdown: while the handlers are executed the registry is the one
\* Shutdown found, so no Register completes; a handler whose Register waits
\* for mu is not in the registry and was not called; a handler whose
\* Register returned is never called twice and, if it was not called, is in
\* the registry for the next Shutdown.
C29_RegisterSerialized ==
    /\ \A t, u \in Callers : (InShutdown(t) /\ InShutdown(u)) => t = u
    /\ \A t \in Callers : InShutdown(t) <=> mu = t
    /\ \A t \in Callers : spc[t] \in {"loop", "handler"} => handlers = snap
    /\ \A u \in Callers :
          spc[u] = "Register" =>
              /\ harg[u] \notin Range(registered) \cup Range(handlers)
              /\ invoked[harg[u]] = 0
    /\ \A h \in Range(registered) :
          /\ invoked[h] <= 1
          /\ invoked[h] = 0 => Cardinality({i \in 1..Len(handlers) : handlers[i] = h}) = 1
    /\ mu = 0 => handlers = NotCalled

\* C29 witness: a Register was called while a Shutdown ran; that Shutdown has
\* called two handlers and is about to unlock mu, the Register still waits
\* for mu and its handler is neither registered nor called
C29_Witness ==
    \E t, u \in Callers :
        /\ spc[t] = "return"
        /\ mu = t
        /\ Len(order) >= 2
        /\ spc[u] = "Register"
        /\ harg[u] \notin Range(registered)
        /\ invoked[harg[u]] = 0

====
